---- MODULE Spec2Model ----
(***************************************************************************)
(* Model of the V2V collision-risk WebSocket service, Backend/index.js.    *)
(*                                                                         *)
(* State: the session registry (userSockets), the Redis geo set "users",   *)
(* the Redis keys userData:<id> with their expiry, the in-memory           *)
(* global.speedHistory, the WebSocket readyState of every channel, and the *)
(* message handlers suspended at an await of a Redis call.                 *)
(*                                                                         *)
(* Coordinates are expressed in metres of the local tangent plane at       *)
(* (0,0): a longitude of x stands for x metres east, a latitude of y for   *)
(* y metres north.  At the ranges of the model (< 100 m) the haversine and *)
(* the spherical forward projection of the source agree with plane         *)
(* geometry far below the thresholds they are compared with.               *)
(***************************************************************************)
EXTENDS Integers, Sequences, FiniteSets, TLC

----------------------------------------------------------------------------
(* Bounds of the model *)

MaxMsgs == 2
MaxTicks == 1
MaxInFlight == 2
MaxFailures == 1
MaxThreatMsgs == 4
MaxAgingMsgs == 3
MaxAgingTicks == 2
MaxCrossingMsgs == 2
MaxBrakingMsgs == 4
MaxBrakingTicks == 1
MaxHeadOnMsgs == 2
MaxWrongWayMsgs == 3
MaxLiveMsgs == 2
MaxLiveFailures == 1
MaxLiveInFlight == 2
MaxSendFailsMsgs == 3
MaxForeignMsgs == 3
MaxTurnMsgs == 2
MaxHeadingMsgs == 2
MaxSpeedMsgs == 3
MaxOppositeMsgs == 3
MaxUndatedMsgs == 3
MaxPipelinedMsgs == 3
MaxPipelinedInFlight == 2
MaxHistoryMsgs == 7
MaxQuickMsgs == 4
MaxQuickTicks == 1

Ids == {"A", "B", "C"}
Channels == {"c1", "c2"}
TickSteps == {5000, 30000}
AgingSteps == {5000, 15000}
BrakingSteps == {1000}

----------------------------------------------------------------------------
(* JavaScript values of the telemetry fields *)

JNum(n) == [type |-> "number", fin |-> TRUE, v |-> n]
JInfinity == [type |-> "number", fin |-> FALSE, v |-> 0]
\* a negative number of magnitude below 2^-45, such as -1e-20: adding 360 to
\* it gives 360, the nearest double
JTinyNegative == [type |-> "number", fin |-> TRUE, v |-> 0, tiny |-> TRUE]
IsTinyNegative(j) == "tiny" \in DOMAIN j
JUndefined == [type |-> "undefined", fin |-> FALSE, v |-> 0]
JNull == [type |-> "null", fin |-> FALSE, v |-> 0]
JStr(s) == [type |-> "string", s |-> s]
JNoStr == [type |-> "undefined", s |-> ""]

\* x ?? 0 followed by Number(): undefined and null give 0
NumberOr0(j) == IF j.type \in {"undefined", "null"} THEN JNum(0) ELSE j

\* Number.isFinite
IsFinite(j) == j.type = "number" /\ j.fin

\* implicit ToNumber of an arithmetic operand: null is 0
ToNumber(j) == IF j.type = "null" THEN JNum(0) ELSE j

\* String.prototype.trim() === ""
TrimIsEmpty(s) == s \in {"", " "}

\* a property that JSON.stringify leaves out of the text
JAbsent == [type |-> "absent", fin |-> FALSE, v |-> 0]

\* JSON.stringify of a field: a non-finite number is written as null and an
\* undefined property is left out
JSONstringifyField(j) ==
  IF j.type = "number" /\ ~j.fin THEN JNull
  ELSE IF j.type = "undefined" THEN JAbsent
  ELSE j

\* JSON.stringify(data): the text stored under userData:<id>
JSONstringify(d) ==
  [userId |-> d.userId,
   latitude |-> JSONstringifyField(d.latitude),
   longitude |-> JSONstringifyField(d.longitude),
   speed |-> JSONstringifyField(d.speed),
   heading |-> JSONstringifyField(d.heading),
   timestamp |-> JSONstringifyField(d.timestamp),
   gyroZ |-> JSONstringifyField(d.gyroZ)]

\* texts that are not the output of JSON.stringify(data): one that is not
\* JSON, and the JSON text null
NotJSON == [foreign |-> "{"]
NullJSON == [foreign |-> "null"]
ForeignTexts == {NotJSON, NullJSON}

\* const other = JSON.parse(raw) throws, or gives null so that reading a
\* property of other throws
ParseThrows(text) == "foreign" \in DOMAIN text

\* reading a property of a parsed object: one the text leaves out is undefined
JSONparseField(j) == IF j.type = "absent" THEN JUndefined ELSE j

\* JSON.parse of a stored text
JSONparse(text) ==
  [userId |-> text.userId,
   latitude |-> JSONparseField(text.latitude),
   longitude |-> JSONparseField(text.longitude),
   speed |-> JSONparseField(text.speed),
   heading |-> JSONparseField(text.heading),
   timestamp |-> JSONparseField(text.timestamp),
   gyroZ |-> JSONparseField(text.gyroZ)]

----------------------------------------------------------------------------
(* CONFIG and the detection thresholds of the handler *)

NEARBY_RADIUS_METERS == 75
ANGULAR_VEL_HIGH_DEG_S == 45
BLIND_SPOT_RADIUS_BOOST_METERS == 8
STALE_MS == 4000
LOOKAHEAD_S == 5
PREDICT_STEP == 1
COLLISION_RADIUS == 4
REAR_END_DISTANCE == 10
SUDDEN_DECEL == 2
WRONG_DIR_DIFF == 150
WRONG_DIR_DISTANCE == 40
HISTORY_LEN == 5
TTL_FAST_S == 10
TTL_SLOW_S == 30
TTL_SPEED_MS == 5
PROJECTION_TIME_SECONDS == 3
TTC_MAX_SECONDS == 3
MIN_SPEED_FOR_INTERSECTION_CMS == 278
INTERSECTION_DIST_M == 8
OVERTAKE_SIDE_MAX_M == 4

----------------------------------------------------------------------------
(* Arithmetic helpers *)

Abs(n) == IF n < 0 THEN -n ELSE n
Max(a, b) == IF a >= b THEN a ELSE b

\* the JavaScript remainder a % b for b > 0: it has the sign of a
JSRem(a, b) == IF a >= 0 THEN a % b ELSE -((-a) % b)

\* floor of the square root, by bisection: lo * lo <= n < hi * hi
RECURSIVE ISqrtBetween(_, _, _)
ISqrtBetween(n, lo, hi) ==
  IF hi - lo <= 1 THEN lo
  ELSE LET mid == (lo + hi) \div 2
       IN IF mid * mid <= n THEN ISqrtBetween(n, mid, hi)
          ELSE ISqrtBetween(n, lo, mid)
\* for n < 2^31, whose root is below 46341
ISqrt(n) == ISqrtBetween(n, 0, 46341)

\* Number(Math.sqrt(sq).toFixed(2)), in hundredths
ToFixed2Sqrt(sq) == (ISqrt(40000 * sq) + 1) \div 2

\* Number((num / den).toFixed(2)) for num >= 0 and den > 0, in hundredths
ToFixed2Ratio(num, den) == (200 * num + den) \div (2 * den)

----------------------------------------------------------------------------
(* Geometry kernel *)

normalizeHeadingDeg(j) ==
  IF ~IsFinite(j) THEN 0
  ELSE IF IsTinyNegative(j) THEN 360
  ELSE LET h == JSRem(j.v, 360) IN IF h < 0 THEN h + 360 ELSE h

\* Math.cos and Math.sin of a bearing, for the bearings along the axes
CosDeg(h) == CASE h = 0 -> 1 [] h = 90 -> 0 [] h = 180 -> -1 [] h = 270 -> 0 [] h = 360 -> 1
SinDeg(h) == CASE h = 0 -> 0 [] h = 90 -> 1 [] h = 180 -> 0 [] h = 270 -> -1 [] h = 360 -> 0

\* a point of the plane; nan when a coordinate is not a finite number
Point(lat, lng) ==
  LET la == ToNumber(lat)
      lo == ToNumber(lng)
  IN IF IsFinite(la) /\ IsFinite(lo)
     THEN [nan |-> FALSE, lat |-> la.v, lng |-> lo.v]
     ELSE [nan |-> TRUE, lat |-> 0, lng |-> 0]

\* projectPoint: bearing 0 moves north (latitude), bearing 90 east (longitude)
projectPoint(p, bearingDeg, distanceMeters) ==
  IF p.nan \/ distanceMeters = 0 THEN p
  ELSE [nan |-> FALSE,
        lat |-> p.lat + distanceMeters * CosDeg(bearingDeg),
        lng |-> p.lng + distanceMeters * SinDeg(bearingDeg)]

\* the speed Infinity, which Math.max(0, Number(1e999)) gives, as a number
\* above every speed offered
SpeedInfinity == 1000000

\* an infinite distance makes sin and cos of the angular distance NaN
predictPosition(p, heading, speed, t) ==
  IF speed = SpeedInfinity THEN [nan |-> TRUE, lat |-> 0, lng |-> 0]
  ELSE projectPoint(p, heading, speed * t)

\* haversineMeters, as the square of the distance; nan when an operand is
haversineMeters(p1, p2) ==
  IF p1.nan \/ p2.nan THEN [nan |-> TRUE, sq |-> 0]
  ELSE [nan |-> FALSE,
        sq |-> (p2.lat - p1.lat) * (p2.lat - p1.lat)
             + (p2.lng - p1.lng) * (p2.lng - p1.lng)]

\* d <= r for a distance d: false when d is NaN
DistLE(d, r) == ~d.nan /\ d.sq <= r * r

headingDiff(h1, h2) ==
  LET d == Abs(h1 - h2) IN IF d > 180 THEN 360 - d ELSE d

\* Math.cos and Math.sin of a heading in thousandths, for the headings along
\* the axes and for 22 and 202, whose cosines and sines are the same doubles
\* with opposite signs
CosThousandths(h) == CASE h = 22 -> 927 [] h = 202 -> -927 [] OTHER -> 1000 * CosDeg(h)
SinThousandths(h) == CASE h = 22 -> 375 [] h = 202 -> -375 [] OTHER -> 1000 * SinDeg(h)

RECURSIVE SumSin(_)
SumSin(arr) == IF arr = << >> THEN 0 ELSE SinThousandths(Head(arr)) + SumSin(Tail(arr))

RECURSIVE SumCos(_)
SumCos(arr) == IF arr = << >> THEN 0 ELSE CosThousandths(Head(arr)) + SumCos(Tail(arr))

\* Math.atan2(y, x) in degrees for whole y and x, not both 0, rounded to a
\* whole degree (26.57 to 27, 63.43 to 63); x and y are sums of at most
\* three unit vectors in thousandths, along the axes or along 22 and 202
Atan2Deg(y, x) ==
  LET ax == Abs(x)
      ay == Abs(y)
      a == CASE ay = 0 -> 0
             [] ax = 0 -> 90
             [] ay = ax -> 45
             [] ay = 2 * ax -> 63
             [] 2 * ay = ax -> 27
             [] 927 * ay = 375 * ax -> 22
      q == IF x >= 0 THEN a ELSE 180 - a
  IN IF y < 0 THEN -q ELSE q

\* avgHeading that returns 0 for every sum
avgHeadingOfZeroSum(arr) == 0

\* avgHeading for headings along the axes.  Math.sin and Math.cos leave a
\* residue below 1e-15 where the exact value is 0 (cos 90 = 6.1e-17,
\* cos 270 = -1.8e-16, sin 180 = 1.2e-16), which moves the angle by less
\* than 1e-13 degrees unless the whole parts cancel: then x === 0 && y === 0
\* is false and the residue decides, 180 for as many 90s as 270s (x < 0,
\* y = 0) and 90 for as many 0s as 180s (x = 0, y > 0).  As many 22s as
\* 202s cancel without residue: x === 0 && y === 0 holds and the result is 0.
avgHeading(arr) ==
  LET y == SumSin(arr)
      x == SumCos(arr)
  IN IF x # 0 \/ y # 0 THEN Atan2Deg(y, x)
     ELSE IF \E i \in 1..Len(arr) : arr[i] \in {90, 270} THEN 180
     ELSE IF \E i \in 1..Len(arr) : arr[i] \in {22, 202} THEN 0
     ELSE 90

----------------------------------------------------------------------------
(* The session registry: a JavaScript Map, which keeps insertion order *)

NoSocket == "none"

MapHas(m, k) == \E i \in 1..Len(m) : m[i].uid = k

MapGet(m, k) ==
  IF MapHas(m, k) THEN (CHOOSE e \in {m[i] : i \in 1..Len(m)} : e.uid = k).ws
  ELSE NoSocket

\* MapSet that keeps the socket of a key already bound
MapSetIfAbsent(m, k, w) ==
  IF MapHas(m, k) THEN m ELSE Append(m, [uid |-> k, ws |-> w])

\* Map.prototype.set: an existing key keeps its place
MapSet(m, k, w) ==
  IF MapHas(m, k)
  THEN [i \in 1..Len(m) |-> IF m[i].uid = k THEN [uid |-> k, ws |-> w] ELSE m[i]]
  ELSE Append(m, [uid |-> k, ws |-> w])

MapDelete(m, k) == SelectSeq(m, LAMBDA e : e.uid # k)

----------------------------------------------------------------------------
(* Threat payloads and their dispatch *)

Payload(type, id, lat, lng, speed, heading, fd, ts, dm, dec, message) ==
  [type |-> type, id |-> id, lat |-> lat, lng |-> lng,
   sourceVehicle |-> [userId |-> id, latitude |-> lat, longitude |-> lng,
                      speed |-> speed, heading |-> heading],
   future_distance_m |-> fd, time_s |-> ts,
   distance_m |-> dm, deceleration |-> dec, message |-> message]

\* the payload for the origin describes the stored sample of the neighbour
PayloadSelf(type, other, uid, speedOther, headingOther, fd, ts, dm, dec, message) ==
  Payload(type,
          IF other.userId.type = "string" THEN other.userId.s ELSE uid,
          other.latitude, other.longitude, speedOther, JNum(headingOther),
          fd, ts, dm, dec, message)

\* the payload for the neighbour describes the sender of the message
PayloadOther(type, data, speedSelf, headingSelf, fd, ts, dm, dec, message) ==
  Payload(type, data.userId.s, data.latitude, data.longitude,
          speedSelf, JNum(headingSelf), fd, ts, dm, dec, message)

\* one ws.send: the socket, its readyState at the call, the message sent,
\* for the record the telemetry message being handled and the neighbour, and
\* whether the call threw
Send(ws, readyState, status, reason, threats, data, peer) ==
  [ch |-> ws, open |-> readyState[ws] = "OPEN", status |-> status,
   reason |-> reason, threats |-> threats, msg |-> data, peer |-> peer,
   threw |-> FALSE]

\* Dispatch without the readyState guard
DispatchAnyState(sockets, readyState, uid, payloadOther, data) ==
  LET wsOther == MapGet(sockets, uid)
  IN IF wsOther # NoSocket
     THEN << Send(wsOther, readyState, "threat", "", << payloadOther >>, data, uid) >>
     ELSE << >>

\* const wsOther = userSockets.get(uid);
\* if (wsOther && wsOther.readyState === wsOther.OPEN) wsOther.send(...)
Dispatch(sockets, readyState, uid, payloadOther, data) ==
  LET wsOther == MapGet(sockets, uid)
  IN IF wsOther # NoSocket /\ readyState[wsOther] = "OPEN"
     THEN << Send(wsOther, readyState, "threat", "", << payloadOther >>, data, uid) >>
     ELSE << >>

----------------------------------------------------------------------------
(* Kinematic state of a sample, and the three predictors of the handler *)

\* Math.max(0, Number(speed ?? 0)), for the numbers of the model
SpeedOf(j) ==
  LET n == NumberOr0(j)
  IN CASE IsFinite(n) -> Max(0, n.v)
       [] n.type = "number" /\ ~n.fin -> SpeedInfinity

\* a speed as the value of a payload field
SpeedValue(speed) == IF speed = SpeedInfinity THEN JInfinity ELSE JNum(speed)

HeadingOf(j) == normalizeHeadingDeg(NumberOr0(j))

\* new Date(other.timestamp || 0).getTime(): NaN, which is not finite, for a
\* string that is not a date, as the strings of the model are
TimestampMs(j) ==
  IF j.type = "number" /\ j.fin /\ j.v # 0 THEN j
  ELSE IF j.type = "number" /\ ~j.fin THEN JInfinity
  ELSE IF j.type = "string" /\ j.s # "" THEN JInfinity
  ELSE JNum(0)

\* IsStale that takes a sample without a usable timestamp as fresh
IsStaleWhenDated(other, now) ==
  other.timestamp.type = "number" /\ other.timestamp.fin /\ other.timestamp.v # 0
  /\ now - other.timestamp.v > STALE_MS

\* !Number.isFinite(otherTs) || now - otherTs > CONFIG.STALE_MS
IsStale(other, now) ==
  LET otherTs == TimestampMs(other.timestamp)
  IN ~IsFinite(otherTs) \/ now - otherTs.v > STALE_MS

PredictTimes == {PREDICT_STEP * k : k \in 1..(LOOKAHEAD_S \div PREDICT_STEP)}

SetMin(S) == CHOOSE x \in S : \A y \in S : x <= y

\* CollisionTime that projects the neighbour at the speed of the sender
CollisionTimeOneSpeed(selfP, headingSelf, speedSelf, otherP, headingOther, speedOther) ==
  LET dPred(t) == haversineMeters(predictPosition(selfP, headingSelf, speedSelf, t),
                                  predictPosition(otherP, headingOther, speedSelf, t))
      hits == {t \in PredictTimes : DistLE(dPred(t), COLLISION_RADIUS)}
  IN IF hits = {} THEN 0 ELSE SetMin(hits)

\* 1) the first t at which the predicted positions are within
\*    COLLISION_RADIUS, or 0 when there is none up to LOOKAHEAD_S
CollisionTime(selfP, headingSelf, speedSelf, otherP, headingOther, speedOther) ==
  LET dPred(t) == haversineMeters(predictPosition(selfP, headingSelf, speedSelf, t),
                                  predictPosition(otherP, headingOther, speedOther, t))
      hits == {t \in PredictTimes : DistLE(dPred(t), COLLISION_RADIUS)}
  IN IF hits = {} THEN 0 ELSE SetMin(hits)

\* decel = (prev.speed - last.speed) / dt with dt = (last.t - prev.t) / 1000 || 1,
\* as the fraction num / den
Decel(otherHist) ==
  LET last == otherHist[Len(otherHist)]
      prev == otherHist[Len(otherHist) - 1]
  IN IF last.t - prev.t = 0
     THEN [num |-> prev.speed - last.speed, den |-> 1]
     ELSE [num |-> (prev.speed - last.speed) * 1000, den |-> last.t - prev.t]

\* 2) decel >= SUDDEN_DECEL && relativeDist <= REAR_END_DISTANCE && closingSpeed > 0.5
RearEnd(otherHist, distNow, speedSelf, speedOther) ==
  /\ Len(otherHist) >= 2
  /\ Decel(otherHist).num >= SUDDEN_DECEL * Decel(otherHist).den
  /\ DistLE(distNow, REAR_END_DISTANCE)
  /\ 2 * (speedSelf - speedOther) > 1

\* WrongDirection without the test of the distance
WrongDirectionAnyDistance(headingOther, majorityDirection, distNow) ==
  headingDiff(headingOther, majorityDirection) >= WRONG_DIR_DIFF

\* 3) headingDifferenceFromMajority >= WRONG_DIR_DIFF && distNow <= 40
WrongDirection(headingOther, majorityDirection, distNow) ==
  /\ headingDiff(headingOther, majorityDirection) >= WRONG_DIR_DIFF
  /\ DistLE(distNow, WRONG_DIR_DISTANCE)

NoThreat == [threats |-> << >>, pushes |-> << >>]

\* Threat with the two payloads taken for one another
ThreatSwapped(c, uid, payloadSelf, payloadOther) ==
  [threats |-> << payloadOther >>,
   pushes |-> Dispatch(c.sockets, c.readyState, uid, payloadSelf, c.data)]

\* a threat for the origin and its mirror for the neighbour
Threat(c, uid, payloadSelf, payloadOther) ==
  [threats |-> << payloadSelf >>,
   pushes |-> Dispatch(c.sockets, c.readyState, uid, payloadOther, c.data)]

\* the kinematic state of the sender and of a neighbour, as the loop derives it
Kin(c, other) ==
  [headingSelf |-> HeadingOf(c.data.heading),
   speedSelf |-> SpeedOf(c.data.speed),
   headingOther |-> HeadingOf(other.heading),
   speedOther |-> SpeedOf(other.speed),
   selfP |-> Point(c.data.latitude, c.data.longitude),
   otherP |-> Point(other.latitude, other.longitude),
   distNow |-> haversineMeters(Point(c.data.latitude, c.data.longitude),
                               Point(other.latitude, other.longitude))]

\* PredictedCollision without the break: a threat for every t that hits
RECURSIVE CollisionThreatsFrom(_, _, _, _)
CollisionThreatsFrom(c, uid, other, t) ==
  IF t > LOOKAHEAD_S THEN NoThreat
  ELSE LET k == Kin(c, other)
           dPred == haversineMeters(predictPosition(k.selfP, k.headingSelf, k.speedSelf, t),
                                    predictPosition(k.otherP, k.headingOther, k.speedOther, t))
           fd == JNum(ToFixed2Sqrt(dPred.sq))
           U == JUndefined
           one == IF ~DistLE(dPred, COLLISION_RADIUS) THEN NoThreat
                  ELSE Threat(c, uid,
                         PayloadSelf("predicted_collision", other, uid, SpeedValue(k.speedOther),
                                     k.headingOther, fd, JNum(t), U, U, "predicted collision"),
                         PayloadOther("predicted_collision", c.data, SpeedValue(k.speedSelf),
                                      k.headingSelf, fd, JNum(t), U, U, "predicted collision"))
           rest == CollisionThreatsFrom(c, uid, other, t + PREDICT_STEP)
       IN [threats |-> one.threats \o rest.threats, pushes |-> one.pushes \o rest.pushes]

PredictedCollisionNoBreak(c, uid, other) == CollisionThreatsFrom(c, uid, other, PREDICT_STEP)

\* 1) predicted collision: the threat of the first t that hits, then break
PredictedCollision(c, uid, other) ==
  LET k == Kin(c, other)
      t == CollisionTime(k.selfP, k.headingSelf, k.speedSelf,
                         k.otherP, k.headingOther, k.speedOther)
      dPred == haversineMeters(predictPosition(k.selfP, k.headingSelf, k.speedSelf, t),
                               predictPosition(k.otherP, k.headingOther, k.speedOther, t))
      fd == JNum(ToFixed2Sqrt(dPred.sq))
      U == JUndefined
  IN IF t = 0 THEN NoThreat
     ELSE Threat(c, uid,
            PayloadSelf("predicted_collision", other, uid, SpeedValue(k.speedOther),
                        k.headingOther, fd, JNum(t), U, U, "predicted collision"),
            PayloadOther("predicted_collision", c.data, SpeedValue(k.speedSelf),
                         k.headingSelf, fd, JNum(t), U, U, "predicted collision"))

\* 2) rear-end, from the speed history of the neighbour
RearEndThreat(c, uid, other) ==
  LET k == Kin(c, other)
      otherHist == c.history[other.userId.s]
      dec == IF otherHist[Len(otherHist) - 1].speed = SpeedInfinity THEN JInfinity
             ELSE JNum(ToFixed2Ratio(Decel(otherHist).num, Decel(otherHist).den))
      dm == JNum(ToFixed2Sqrt(k.distNow.sq))
      U == JUndefined
  IN IF ~RearEnd(otherHist, k.distNow, k.speedSelf, k.speedOther) THEN NoThreat
     ELSE Threat(c, uid,
            PayloadSelf("rear_end", other, uid, SpeedValue(k.speedOther), k.headingOther,
                        U, U, dm, dec, "front vehicle is braking hard"),
            PayloadOther("rear_end", c.data, SpeedValue(k.speedSelf), k.headingSelf,
                         U, U, dm, dec, "vehicle behind may hit you"))

\* 3) wrong direction against the majority heading; its sourceVehicle has no speed
WrongDirectionThreat(c, uid, other) ==
  LET k == Kin(c, other)
      dm == JNum(ToFixed2Sqrt(k.distNow.sq))
      U == JUndefined
  IN IF ~WrongDirection(k.headingOther, c.majorityDirection, k.distNow) THEN NoThreat
     ELSE Threat(c, uid,
            PayloadSelf("wrong_direction", other, uid, U, k.headingOther,
                        U, U, dm, U, "vehicle traveling in opposite direction"),
            PayloadOther("wrong_direction", c.data, U, k.headingSelf,
                         U, U, dm, U, "you are going opposite to traffic"))

\* Predict with the rear-end detector tried before the predicted collision
PredictRearEndFirst(c, uid, other) ==
  IF RearEndThreat(c, uid, other) # NoThreat THEN RearEndThreat(c, uid, other)
  ELSE IF PredictedCollision(c, uid, other) # NoThreat THEN PredictedCollision(c, uid, other)
  ELSE WrongDirectionThreat(c, uid, other)

\* the predictors in the order of the loop body: each one that fires ends
\* the iteration (continue), so the later ones are not evaluated
Predict(c, uid, other) ==
  IF PredictedCollision(c, uid, other) # NoThreat THEN PredictedCollision(c, uid, other)
  ELSE IF RearEndThreat(c, uid, other) # NoThreat THEN RearEndThreat(c, uid, other)
  ELSE WrongDirectionThreat(c, uid, other)

\* usersData[i]: undefined past the end of the array
RawAt(usersData, i) == IF i <= Len(usersData) THEN usersData[i] ELSE << >>

\* one iteration of the main loop: skip a missing or stale neighbour, and one
\* whose text throws (catch (innerErr) logs it)
\* EvaluateNeighbor that takes the sender's own sample where the payload of
\* the neighbour is missing
EvaluateNeighborNeverMissing(c, i) ==
  LET raw == RawAt(c.usersData, i)
  IN IF raw = << >> THEN Predict(c, c.otherIds[i], JSONparse(JSONstringify(c.data)))
     ELSE IF ParseThrows(raw[1]) THEN NoThreat
     ELSE IF IsStale(JSONparse(raw[1]), c.now) THEN NoThreat
     ELSE Predict(c, c.otherIds[i], JSONparse(raw[1]))

EvaluateNeighbor(c, i) ==
  LET raw == RawAt(c.usersData, i)
  IN IF raw = << >> THEN NoThreat
     ELSE IF ParseThrows(raw[1]) THEN NoThreat
     ELSE IF IsStale(JSONparse(raw[1]), c.now) THEN NoThreat
     ELSE Predict(c, c.otherIds[i], JSONparse(raw[1]))

\* MainLoop that evaluates only the neighbours up to the first threat
RECURSIVE MainLoopFirstThreat(_, _)
MainLoopFirstThreat(c, i) ==
  IF i > Len(c.otherIds) THEN NoThreat
  ELSE LET r == EvaluateNeighbor(c, i)
       IN IF r # NoThreat THEN r ELSE MainLoopFirstThreat(c, i + 1)

\* MainLoop with the try around the loop: a neighbour that throws ends it
RECURSIVE MainLoopTryOutside(_, _)
MainLoopTryOutside(c, i) ==
  IF i > Len(c.otherIds) THEN NoThreat
  ELSE IF RawAt(c.usersData, i) # << >> /\ ParseThrows(RawAt(c.usersData, i)[1]) THEN NoThreat
  ELSE LET r == EvaluateNeighbor(c, i)
           rest == MainLoopTryOutside(c, i + 1)
       IN [threats |-> r.threats \o rest.threats, pushes |-> r.pushes \o rest.pushes]

RECURSIVE MainLoop(_, _)
MainLoop(c, i) ==
  IF i > Len(c.otherIds) THEN NoThreat
  ELSE LET r == EvaluateNeighbor(c, i)
           rest == MainLoop(c, i + 1)
       IN [threats |-> r.threats \o rest.threats, pushes |-> r.pushes \o rest.pushes]

\* try { wsOther.send(...) } catch (e) { console.error(...) }: the calls on the
\* sockets of thrown throw, and the catch only logs
TrySend(pushes, thrown) ==
  [j \in 1..Len(pushes) |->
     IF pushes[j].ch \in thrown THEN [pushes[j] EXCEPT !.threw = TRUE] ELSE pushes[j]]

\* MainLoopSendThrows in which a send that throws ends the loop
RECURSIVE MainLoopSendThrowsAborts(_, _, _)
MainLoopSendThrowsAborts(c, i, thrown) ==
  IF i > Len(c.otherIds) THEN NoThreat
  ELSE LET r == EvaluateNeighbor(c, i)
           rest == MainLoopSendThrowsAborts(c, i + 1, thrown)
       IN IF \E j \in 1..Len(r.pushes) : r.pushes[j].ch \in thrown
          THEN [threats |-> r.threats, pushes |-> TrySend(r.pushes, thrown)]
          ELSE [threats |-> r.threats \o rest.threats, pushes |-> r.pushes \o rest.pushes]

\* the main loop when the sends on the sockets of thrown throw: the threat
\* is in threats before the send, and after the catch the iteration ends as
\* after a send that succeeds
RECURSIVE MainLoopSendThrows(_, _, _)
MainLoopSendThrows(c, i, thrown) ==
  IF i > Len(c.otherIds) THEN NoThreat
  ELSE LET r == EvaluateNeighbor(c, i)
           rest == MainLoopSendThrows(c, i + 1, thrown)
       IN [threats |-> r.threats \o rest.threats,
           pushes |-> TrySend(r.pushes, thrown) \o rest.pushes]

----------------------------------------------------------------------------
(* The intersection and overtake detectors of the earlier handler; the       *)
(* handler of Backend/index.js does not have them.  x is north, y is east.   *)

Min(a, b) == IF a <= b THEN a ELSE b

\* velSelf, velOther: { x: speed * Math.cos(heading), y: speed * Math.sin(heading) }
Vel(speed, heading) == [x |-> speed * CosDeg(heading), y |-> speed * SinDeg(heading)]

\* posOther in the frame of the sender
PosOther(k) == [x |-> k.otherP.lat - k.selfP.lat, y |-> k.otherP.lng - k.selfP.lng]

\* computeCPA_local for whole positions and velocities: tStar is num / den,
\* and the separation at tStar is (sepx, sepy) / den
computeCPA_local(selfPos, selfVel, otherPos, otherVel, maxT) ==
  LET r0x == selfPos.x - otherPos.x
      r0y == selfPos.y - otherPos.y
      vx == selfVel.x - otherVel.x
      vy == selfVel.y - otherVel.y
      vDotV == vx * vx + vy * vy
      den == IF vDotV > 0 THEN vDotV ELSE 1
      num == IF vDotV > 0 THEN Max(0, Min(maxT * vDotV, -(r0x * vx + r0y * vy))) ELSE 0
  IN [num |-> num, den |-> den,
      sepx |-> r0x * den + vx * num, sepy |-> r0y * den + vy * num]

\* cpa.dist <= d and cpa.tStar <= t
CpaDistLE(cpa, d) == cpa.sepx * cpa.sepx + cpa.sepy * cpa.sepy <= d * d * cpa.den * cpa.den
CpaTimeLE(cpa, t) == cpa.num <= t * cpa.den

\* Intersection (T/L) detection: its two conditions
IntersectionCondition(k) ==
  LET cpa == computeCPA_local([x |-> 0, y |-> 0], Vel(k.speedSelf, k.headingSelf),
                              PosOther(k), Vel(k.speedOther, k.headingOther),
                              PROJECTION_TIME_SECONDS)
      hdiff == headingDiff(k.headingSelf, k.headingOther)
  IN /\ 100 * k.speedSelf >= MIN_SPEED_FOR_INTERSECTION_CMS
     /\ 100 * k.speedOther >= MIN_SPEED_FOR_INTERSECTION_CMS
     /\ hdiff >= 60 /\ hdiff <= 120
     /\ CpaDistLE(cpa, INTERSECTION_DIST_M)
     /\ CpaTimeLE(cpa, TTC_MAX_SECONDS)

\* Overtake detection: hdiff <= 20, dist <= 12, speedOther > speedSelf + 1.5,
\* lateral <= OVERTAKE_SIDE_MAX_M, closing > 0.3 and cpaOver.tStar <= 2
OvertakeCondition(k) ==
  LET cpaOver == computeCPA_local([x |-> 0, y |-> 0], Vel(k.speedSelf, k.headingSelf),
                                  PosOther(k), Vel(k.speedOther, k.headingOther),
                                  PROJECTION_TIME_SECONDS)
      rel == PosOther(k)
      vrelX == Vel(k.speedOther, k.headingOther).x - Vel(k.speedSelf, k.headingSelf).x
      vrelY == Vel(k.speedOther, k.headingOther).y - Vel(k.speedSelf, k.headingSelf).y
      lateral == Abs(rel.x * SinDeg(k.headingSelf) - rel.y * CosDeg(k.headingSelf))
      rMag2 == rel.x * rel.x + rel.y * rel.y
      approach == -(rel.x * vrelX + rel.y * vrelY)
  IN /\ headingDiff(k.headingSelf, k.headingOther) <= 20
     /\ DistLE(k.distNow, 12)
     /\ 2 * k.speedOther > 2 * k.speedSelf + 3
     /\ lateral <= OVERTAKE_SIDE_MAX_M
     /\ rMag2 > 0 /\ approach > 0 /\ 100 * approach * approach > 9 * rMag2
     /\ CpaTimeLE(cpaOver, 2)

\* allHeadings: the sender's heading and that of every fetched neighbour
RECURSIVE NeighborHeadings(_, _, _)
NeighborHeadings(otherIds, usersData, i) ==
  IF i > Len(otherIds) THEN << >>
  ELSE LET raw == RawAt(usersData, i)
       IN (IF raw = << >> \/ ParseThrows(raw[1]) THEN << >>
           ELSE << HeadingOf(JSONparse(raw[1]).heading) >>)
          \o NeighborHeadings(otherIds, usersData, i + 1)

MajorityDirection(data, otherIds, usersData) ==
  normalizeHeadingDeg(JNum(avgHeading(
      << HeadingOf(data.heading) >> \o NeighborHeadings(otherIds, usersData, 1))))

\* PushHistory that keeps the oldest samples: slice(0, 5)
PushHistoryKeepsOldest(history, uid, speed, now) ==
  LET h == Append(history[uid], [speed |-> speed, t |-> now])
  IN [history EXCEPT ![uid] = IF Len(h) > HISTORY_LEN THEN SubSeq(h, 1, HISTORY_LEN) ELSE h]

\* global.speedHistory[userId].push({speed, t}) then slice(-5)
\* PushHistory with one history shared by every vehicle that has one
PushHistoryShared(history, uid, speed, now) ==
  LET old(id) == history[id] \o << [speed |-> speed, t |-> now] >>
      kept(id) == IF Len(old(id)) > HISTORY_LEN
                  THEN SubSeq(old(id), Len(old(id)) - HISTORY_LEN + 1, Len(old(id)))
                  ELSE old(id)
  IN [id \in DOMAIN history |->
        IF id = uid \/ history[id] # << >> THEN kept(id) ELSE history[id]]

PushHistory(history, uid, speed, now) ==
  LET h == Append(history[uid], [speed |-> speed, t |-> now])
  IN [history EXCEPT ![uid] =
        IF Len(h) > HISTORY_LEN THEN SubSeq(h, Len(h) - HISTORY_LEN + 1, Len(h)) ELSE h]

----------------------------------------------------------------------------
(* Telemetry messages offered to the service *)

\* Date.now() when the service starts: any instant later than STALE_MS
ClockStart == 25 * STALE_MS

Telemetry(userId, lat, lng, speed, heading, timestamp, gyroZ) ==
  [userId |-> userId, latitude |-> lat, longitude |-> lng, speed |-> speed,
   heading |-> heading, timestamp |-> timestamp, gyroZ |-> gyroZ]

\* every vehicle reports from its own spot of an east-west road
LngOf(id) == CASE id = "A" -> 0 [] id = "B" -> 10 [] id = "C" -> 30

Sample(id, speed, heading, now) ==
  Telemetry(JStr(id), JNum(0), JNum(LngOf(id)), JNum(speed), JNum(heading),
            JNum(now), JUndefined)

\* a sample of a vehicle at lat metres north and lng metres east
SampleAt(id, lat, lng, speed, heading, now) ==
  Telemetry(JStr(id), JNum(lat), JNum(lng), JNum(speed), JNum(heading),
            JNum(now), JUndefined)

\* A drives east or stands, B stands
ValidMessages(now) ==
  {Sample("A", 6, 90, now), Sample("A", 0, 90, now), Sample("B", 0, 90, now)}

\* no userId, a blank userId, no latitude, and a latitude of 1e999
OddMessages(now) ==
  {Telemetry(u, JNum(0), JNum(0), JNum(0), JNum(90), JNum(now), JUndefined) :
     u \in {JNoStr, JStr(" ")}}
  \cup
  {Telemetry(JStr("A"), la, JNum(0), JNum(0), JNum(90), JNum(now), JUndefined) :
     la \in {JUndefined, JInfinity}}

Messages(now) == ValidMessages(now) \cup OddMessages(now)

\* the samples that make each predictor fire: A closes in on B fast (6) or
\* slowly (1), B brakes from 2 to 0, C stands heading west
ThreatMessages(now) ==
  {Sample("A", 6, 90, now), Sample("A", 1, 90, now),
   Sample("B", 2, 90, now), Sample("B", 0, 90, now), Sample("C", 0, -90, now)}

\* A drives east fast, B reports no speed, C stands heading west
AgingMessages(now) ==
  {Sample("A", 6, 90, now),
   Telemetry(JStr("B"), JNum(0), JNum(LngOf("B")), JUndefined, JNum(90), JNum(now), JUndefined),
   Sample("C", 0, -90, now)}

\* A drives north at 8 m/s from the origin.  B crosses A's path from the
\* east (both reach the point 20 m north of the origin after 2.5 s), or
\* drives east from 20 m east of A, or comes up from behind A one lane to
\* the east at 14 m/s
CrossingMessages(now) ==
  {SampleAt("A", 0, 0, 8, 0, now),
   SampleAt("B", 20, 20, 8, 270, now),
   SampleAt("B", 0, 20, 8, 90, now),
   SampleAt("B", -10, 4, 14, 0, now)}

\* A follows B, 8 m ahead, at 15 m/s; B reports 16 m/s or 10 m/s
BrakingMessages(now) ==
  {SampleAt("A", 0, 0, 15, 90, now),
   SampleAt("B", 0, 8, 16, 90, now),
   SampleAt("B", 0, 8, 10, 90, now)}

\* A drives east at 10 m/s; B comes towards A at 10 m/s from 100 m or from 60 m
HeadOnMessages(now) ==
  {SampleAt("A", 0, 0, 10, 90, now),
   SampleAt("B", 0, 100, 10, 270, now),
   SampleAt("B", 0, 60, 10, 270, now)}

\* A stands or drives east at 6 m/s, B stands 10 m east of A heading east
\* as well; C stands 20 m or 50 m east of A heading west
WrongWayMessages(now) ==
  {SampleAt("A", 0, 0, 0, 90, now),
   SampleAt("A", 0, 0, 6, 90, now),
   SampleAt("B", 0, 10, 0, 90, now),
   SampleAt("C", 0, 20, 0, 270, now),
   SampleAt("C", 0, 50, 0, 270, now)}

\* A drives east towards the standing B; a message without userId
LiveMessages(now) ==
  {Sample("A", 6, 90, now), Sample("B", 0, 90, now),
   Telemetry(JNoStr, JNum(0), JNum(0), JNum(0), JNum(90), JNum(now), JUndefined)}

\* the values of gyro.z, in thousandths: none, 0.499 and 1 and 44.999 (no
\* sudden turn), 45 and -45 (a sudden turn)
TurnRates == {JUndefined, JNum(499), JNum(1000), JNum(44999), JNum(45000), JNum(-45000)}

\* A drives east at 10 m/s with each of the yaw rates; B comes towards A,
\* without gyro, at 10 m/s from 80 m or at 5 m/s from 60 m
TurnMessages(now) ==
  {Telemetry(JStr("A"), JNum(0), JNum(0), JNum(10), JNum(90), JNum(now), z) : z \in TurnRates}
  \cup {SampleAt("B", 0, 80, 10, 270, now), SampleAt("B", 0, 60, 5, 270, now)}

\* A follows B, 10 m ahead, at 11 m/s; B reports 11 m/s or 10 m/s
HistoryMessages(now) ==
  {SampleAt("A", 0, 0, 11, 90, now),
   SampleAt("B", 0, 10, 11, 90, now),
   SampleAt("B", 0, 10, 10, 90, now)}

\* half a second between two messages
QuickSteps == {500}

\* the headings offered: east, -90, 450, -1e-20, 1e999 and none
Headings == {JNum(90), JNum(-90), JNum(450), JTinyNegative, JInfinity, JUndefined}

\* A drives at 6 m/s with each of the headings; B stands 10 m east of A
\* heading east
HeadingMessages(now) ==
  {Telemetry(JStr("A"), JNum(0), JNum(0), JNum(6), h, JNum(now), JUndefined) : h \in Headings}
  \cup {SampleAt("B", 0, 10, 0, 90, now)}

\* the speeds offered: 6, -5, 1e999 and none
Speeds == {JNum(6), JNum(-5), JInfinity, JUndefined}

\* A drives east with each of the speeds; B stands 10 m east of A heading
\* east
SpeedMessages(now) ==
  {Telemetry(JStr("A"), JNum(0), JNum(0), v, JNum(90), JNum(now), JUndefined) : v \in Speeds}
  \cup {SampleAt("B", 0, 10, 0, 90, now)}

\* A and B stand 10 m apart; A heads 22 or 202, B heads 202
OppositeMessages(now) ==
  {SampleAt("A", 0, 0, 0, 22, now), SampleAt("A", 0, 0, 0, 202, now),
   SampleAt("B", 0, 10, 0, 202, now)}

\* the timestamps offered: the time of sending, none, null, and a string
\* that is not a date
Timestamps(now) == {JNum(now), JUndefined, JNull, JStr("soon")}

\* A drives east at 6 m/s towards B, which stands 10 m ahead and sends each
\* of the timestamps
UndatedMessages(now) ==
  {SampleAt("A", 0, 0, 6, 90, now)}
  \cup {Telemetry(JStr("B"), JNum(0), JNum(10), JNum(0), JNum(90), ts, JUndefined) :
          ts \in Timestamps(now)}

\* two messages of A in a row: m1 from 10 m behind B at 6 m/s, then m2 at
\* 3 m/s, from 5 m behind B or from 200 m past it
FirstMessage(now) == SampleAt("A", 0, 0, 6, 90, now)
SecondMessages(now) == {SampleAt("A", 0, 5, 3, 90, now), SampleAt("A", 0, 200, 3, 90, now)}

\* what the clients send when left messages are still to come: B's sample
\* first, then m1, then m2
PipelinedMessages(left, now) ==
  CASE left >= 3 -> {Sample("B", 0, 90, now)}
    [] left = 2 -> {FirstMessage(now)}
    [] left = 1 -> SecondMessages(now)
    [] OTHER -> {}

----------------------------------------------------------------------------
(* The handler of ws.on("message"), between its awaits *)

\* ValidationError without the check of the coordinates
ValidationErrorUserIdOnly(data) ==
  IF data.userId.type # "string" \/ TrimIsEmpty(data.userId.s) THEN "missing userId"
  ELSE ""

\* the reason of the validation error, or "" for a message that passes
ValidationError(data) ==
  IF data.userId.type # "string" \/ TrimIsEmpty(data.userId.s) THEN "missing userId"
  ELSE IF data.latitude.type # "number" \/ data.longitude.type # "number"
       THEN "invalid coordinates"
  ELSE ""

\* TtlOf with the slow expiry for every speed
TtlAlwaysSlow(data) == TTL_SLOW_S

\* const ttl = data.speed > 5 ? 10 : 30
TtlOf(data) ==
  IF data.speed.type = "number" /\ (~data.speed.fin \/ data.speed.v > TTL_SPEED_MS)
  THEN TTL_FAST_S ELSE TTL_SLOW_S

\* gyro.z is kept in thousandths; below 0.5 it is taken as rad/s and
\* multiplied by 180 / pi (pi as 355 / 113)
\* IsSuddenTurn that converts every value from radians to degrees
IsSuddenTurnAllRadians(data) ==
  LET raw == Abs(NumberOr0(data.gyroZ).v)
  IN raw * 180 * 113 >= ANGULAR_VEL_HIGH_DEG_S * 1000 * 355

IsSuddenTurn(data) ==
  LET raw == Abs(NumberOr0(data.gyroZ).v)
  IN IF raw < 500 THEN raw * 180 * 113 >= ANGULAR_VEL_HIGH_DEG_S * 1000 * 355
     ELSE raw >= ANGULAR_VEL_HIGH_DEG_S * 1000

\* NearbyRadius without the boost of a sudden turn
NearbyRadiusNoBoost(data) == NEARBY_RADIUS_METERS

\* NearbyRadius with twice the base radius
NearbyRadiusDoubled(data) ==
  2 * NEARBY_RADIUS_METERS + (IF IsSuddenTurn(data) THEN BLIND_SPOT_RADIUS_BOOST_METERS ELSE 0)

NearbyRadius(data) ==
  NEARBY_RADIUS_METERS + (IF IsSuddenTurn(data) THEN BLIND_SPOT_RADIUS_BOOST_METERS ELSE 0)

\* GEOADD is rejected by Redis for a coordinate that is not finite
GeoAddAccepted(data) == IsFinite(data.latitude) /\ IsFinite(data.longitude)

\* GEORADIUSBYMEMBER users <member> <radius> m: the members within the radius
\* of the member's stored position, the member itself included
GeoRadiusByMember(geoSet, member, radius) ==
  {id \in Ids :
     /\ geoSet[id] # << >>
     /\ (geoSet[id][1].lat - geoSet[member][1].lat) * (geoSet[id][1].lat - geoSet[member][1].lat)
        + (geoSet[id][1].lng - geoSet[member][1].lng) * (geoSet[id][1].lng - geoSet[member][1].lng)
        <= radius * radius}

\* OtherIds that keeps the sender among its own neighbours
OtherIdsWithSelf(nearbyUserIds, self) == nearbyUserIds

\* nearbyUserIds.filter(uid => uid !== data.userId)
OtherIds(nearbyUserIds, self) == nearbyUserIds \ {self}

\* the orders in which a reply can list a set of members
Orders(S) == {f \in [1..Cardinality(S) -> S] : \A i, j \in 1..Cardinality(S) : f[i] = f[j] => i = j}

Handler(ch, data, pc, otherIds, errs) ==
  [ch |-> ch, data |-> data, pc |-> pc, otherIds |-> otherIds, errs |-> errs]

\* after a call that failed because Redis is unavailable: the catch logs the
\* error and the handler goes on
AfterError(h, call) == [h EXCEPT !.errs = @ \cup {call}]

----------------------------------------------------------------------------
(* State *)

VARIABLES
  readyState,    \* channel -> "NEW" (not connected yet), "OPEN" or "CLOSED"
  userSockets,   \* the Map userId => WebSocket, in insertion order
  geo,           \* Redis geo set "users": id -> << >> or << [lat, lng] >>
  userData,      \* Redis keys userData:<id>: id -> << >> or << [text, expireAt] >>
  speedHistory,  \* global.speedHistory: id -> sequence of [speed, t]
  inflight,      \* the handlers suspended at a Redis call, in the order of the calls
  sent,          \* the ws.send calls of the latest step, in order
  clock,         \* Date.now()
  budget         \* what the environment may still do: messages to accept, ticks,
                 \* Redis failures; and how many handlers may be suspended at once

vars == << readyState, userSockets, geo, userData, speedHistory, inflight, sent,
           clock, budget >>

Budget(msgs, ticks, fails, handlers) ==
  [msgs |-> msgs, ticks |-> ticks, fails |-> fails, handlers |-> handlers]

\* the service after start-up: no connection, empty registry and stores
Started(b) ==
  /\ readyState = [c \in Channels |-> "NEW"]
  /\ userSockets = << >>
  /\ geo = [id \in Ids |-> << >>]
  /\ userData = [id \in Ids |-> << >>]
  /\ speedHistory = [id \in Ids |-> << >>]
  /\ inflight = << >>
  /\ sent = << >>
  /\ clock = ClockStart
  /\ budget = b

Init == Started(Budget(MaxMsgs, MaxTicks, MaxFailures, MaxInFlight))

----------------------------------------------------------------------------
(* Connections *)

\* wss.on("connection"): a new socket, OPEN
Connect(c) ==
  /\ readyState[c] = "NEW"
  /\ readyState' = [readyState EXCEPT ![c] = "OPEN"]
  /\ sent' = << >>
  /\ UNCHANGED << userSockets, geo, userData, speedHistory, inflight, clock, budget >>

\* the loop of ws.on("close"): the first entry whose socket is ws is
\* deleted, and the loop breaks
RemoveSocket(m, ws) ==
  IF \E i \in 1..Len(m) : m[i].ws = ws
  THEN LET first == SetMin({i \in 1..Len(m) : m[i].ws = ws})
       IN MapDelete(m, m[first].uid)
  ELSE m

\* Close that also drops the handlers of the messages received on the socket
CloseCancels(c) ==
  /\ readyState[c] = "OPEN"
  /\ readyState' = [readyState EXCEPT ![c] = "CLOSED"]
  /\ userSockets' = RemoveSocket(userSockets, c)
  /\ inflight' = SelectSeq(inflight, LAMBDA h : h.ch # c)
  /\ sent' = << >>
  /\ UNCHANGED << geo, userData, speedHistory, clock, budget >>

\* Close that deletes the ids of the messages received on the socket and
\* still being handled, whatever socket they are bound to now
CloseBySender(c) ==
  /\ readyState[c] = "OPEN"
  /\ readyState' = [readyState EXCEPT ![c] = "CLOSED"]
  /\ userSockets' = SelectSeq(RemoveSocket(userSockets, c),
                              LAMBDA e : \A i \in 1..Len(inflight) :
                                 inflight[i].ch = c => inflight[i].data.userId.s # e.uid)
  /\ sent' = << >>
  /\ UNCHANGED << geo, userData, speedHistory, inflight, clock, budget >>

Close(c) ==
  /\ readyState[c] = "OPEN"
  /\ readyState' = [readyState EXCEPT ![c] = "CLOSED"]
  /\ userSockets' = RemoveSocket(userSockets, c)
  /\ sent' = << >>
  /\ UNCHANGED << geo, userData, speedHistory, inflight, clock, budget >>

----------------------------------------------------------------------------
(* ws.on("message") *)

\* a message that JSON.parse rejects: the outer catch logs it
ReceiveUnparsable(c) ==
  /\ readyState[c] = "OPEN"
  /\ sent' = << >>
  /\ UNCHANGED << readyState, userSockets, geo, userData, speedHistory, inflight,
                  clock, budget >>

\* a parsed message: validation, then userSockets.set and the call of geoAdd
ReceiveMessage(c, data) ==
  /\ readyState[c] = "OPEN"
  /\ IF ValidationError(data) # ""
     THEN /\ sent' = << Send(c, readyState, "error", ValidationError(data), << >>, data, "") >>
          /\ UNCHANGED << userSockets, inflight, budget >>
     ELSE /\ budget.msgs > 0
          /\ Len(inflight) < budget.handlers
          /\ budget' = [budget EXCEPT !.msgs = @ - 1]
          /\ userSockets' = MapSet(userSockets, data.userId.s, c)
          /\ inflight' = Append(inflight, Handler(c, data, "geoAdd", << >>, {}))
          /\ sent' = << >>
  /\ UNCHANGED << readyState, geo, userData, speedHistory, clock >>

\* a Redis call is answered with an error: the store is unavailable
Outcome(ok) ==
  /\ ok \in BOOLEAN
  /\ ~ok => budget.fails > 0
  /\ budget' = IF ok THEN budget ELSE [budget EXCEPT !.fails = @ - 1]

\* await redisClient.geoAdd returns; then the call of redisClient.set
GeoAddReturns(ok) ==
  /\ inflight # << >>
  /\ Head(inflight).pc = "geoAdd"
  /\ Outcome(ok)
  /\ LET h == Head(inflight)
         done == ok /\ GeoAddAccepted(h.data)
     IN /\ geo' = IF done
                  THEN [geo EXCEPT ![h.data.userId.s] =
                          << [lat |-> h.data.latitude.v, lng |-> h.data.longitude.v] >>]
                  ELSE geo
        /\ inflight' = Append(Tail(inflight),
                              [(IF ok THEN h ELSE AfterError(h, "geoAdd")) EXCEPT !.pc = "set"])
  /\ sent' = << >>
  /\ UNCHANGED << readyState, userSockets, userData, speedHistory, clock >>

\* await redisClient.set returns; then the radius and the call of geoRadiusByMember
SetReturns(ok) ==
  /\ inflight # << >>
  /\ Head(inflight).pc = "set"
  /\ Outcome(ok)
  /\ LET h == Head(inflight)
     IN /\ userData' = IF ok
                       THEN [userData EXCEPT ![h.data.userId.s] =
                               << [text |-> JSONstringify(h.data),
                                   expireAt |-> clock + 1000 * TtlOf(h.data)] >>]
                       ELSE userData
        /\ inflight' = Append(Tail(inflight),
                              [(IF ok THEN h ELSE AfterError(h, "set"))
                                 EXCEPT !.pc = "geoRadiusByMember"])
  /\ sent' = << >>
  /\ UNCHANGED << readyState, userSockets, geo, speedHistory, clock >>

\* AckStatus that reports a failed Redis call to the origin
AckStatusFromErrors(h) == IF h.errs # {} THEN "error" ELSE "received"

\* the status of the acknowledgment that ends a handler
AckStatus(h) == "received"

\* await redisClient.geoRadiusByMember returns (an unknown member is an error);
\* without neighbours the empty acknowledgment, else the call of mGet
RadiusReturns(ok) ==
  /\ inflight # << >>
  /\ Head(inflight).pc = "geoRadiusByMember"
  /\ Outcome(ok)
  /\ LET h == Head(inflight)
         self == h.data.userId.s
         done == ok /\ geo[self] # << >>
         nearbyUserIds == IF done THEN GeoRadiusByMember(geo, self, NearbyRadius(h.data))
                          ELSE {}
         others == OtherIds(nearbyUserIds, self)
         g == IF ok THEN h ELSE AfterError(h, "geoRadiusByMember")
     IN IF others = {}
        THEN /\ sent' = << Send(h.ch, readyState, AckStatus(g), "", << >>, h.data, "") >>
             /\ inflight' = Tail(inflight)
        ELSE /\ \E otherIds \in Orders(others) :
                  inflight' = Append(Tail(inflight),
                                     [g EXCEPT !.pc = "mGet", !.otherIds = otherIds])
             /\ sent' = << >>
  /\ UNCHANGED << readyState, userSockets, geo, userData, speedHistory, clock >>

\* MGetReturns that acknowledges the origin before it pushes to the neighbours
MGetReturnsAckFirst(ok) ==
  /\ inflight # << >>
  /\ Head(inflight).pc = "mGet"
  /\ Outcome(ok)
  /\ LET h == Head(inflight)
         g == IF ok THEN h ELSE AfterError(h, "mGet")
         usersData == IF ok
                      THEN [i \in 1..Len(h.otherIds) |->
                              IF userData[h.otherIds[i]] = << >> THEN << >>
                              ELSE << userData[h.otherIds[i]][1].text >>]
                      ELSE << >>
         history == PushHistory(speedHistory, h.data.userId.s, SpeedOf(h.data.speed), clock)
         c == [data |-> h.data, otherIds |-> h.otherIds, usersData |-> usersData,
               now |-> clock, history |-> history, sockets |-> userSockets,
               readyState |-> readyState,
               majorityDirection |-> MajorityDirection(h.data, h.otherIds, usersData)]
         r == MainLoop(c, 1)
     IN /\ speedHistory' = history
        /\ sent' = << Send(h.ch, readyState, AckStatus(g), "", r.threats, h.data, "") >> \o r.pushes
        /\ inflight' = Tail(inflight)
  /\ UNCHANGED << readyState, userSockets, geo, userData, clock >>

\* await redisClient.mGet returns; then the speed history, the majority
\* heading, the main loop with its pushes, and the acknowledgment
MGetReturns(ok) ==
  /\ inflight # << >>
  /\ Head(inflight).pc = "mGet"
  /\ Outcome(ok)
  /\ LET h == Head(inflight)
         g == IF ok THEN h ELSE AfterError(h, "mGet")
         usersData == IF ok
                      THEN [i \in 1..Len(h.otherIds) |->
                              IF userData[h.otherIds[i]] = << >> THEN << >>
                              ELSE << userData[h.otherIds[i]][1].text >>]
                      ELSE << >>
         history == PushHistory(speedHistory, h.data.userId.s, SpeedOf(h.data.speed), clock)
         c == [data |-> h.data, otherIds |-> h.otherIds, usersData |-> usersData,
               now |-> clock, history |-> history, sockets |-> userSockets,
               readyState |-> readyState,
               majorityDirection |-> MajorityDirection(h.data, h.otherIds, usersData)]
         r == MainLoop(c, 1)
     IN /\ speedHistory' = history
        /\ sent' = r.pushes \o << Send(h.ch, readyState, AckStatus(g), "", r.threats, h.data, "") >>
        /\ inflight' = Tail(inflight)
  /\ UNCHANGED << readyState, userSockets, geo, userData, clock >>

\* await redisClient.mGet returns and, in the main loop, the sends on the
\* sockets of thrown throw (the origin's own socket is not among them)
MGetReturnsSendThrows(thrown) ==
  /\ inflight # << >>
  /\ Head(inflight).pc = "mGet"
  /\ LET h == Head(inflight)
         usersData == [i \in 1..Len(h.otherIds) |->
                         IF userData[h.otherIds[i]] = << >> THEN << >>
                         ELSE << userData[h.otherIds[i]][1].text >>]
         history == PushHistory(speedHistory, h.data.userId.s, SpeedOf(h.data.speed), clock)
         c == [data |-> h.data, otherIds |-> h.otherIds, usersData |-> usersData,
               now |-> clock, history |-> history, sockets |-> userSockets,
               readyState |-> readyState,
               majorityDirection |-> MajorityDirection(h.data, h.otherIds, usersData)]
     IN /\ h.ch \notin thrown
        /\ \E r \in {MainLoopSendThrows(c, 1, thrown)} :
             /\ \E j \in 1..Len(r.pushes) : r.pushes[j].threw
             /\ sent' = r.pushes \o << Send(h.ch, readyState, AckStatus(h), "", r.threats, h.data, "") >>
        /\ speedHistory' = history
        /\ inflight' = Tail(inflight)
  /\ UNCHANGED << readyState, userSockets, geo, userData, clock, budget >>

\* another client of the Redis server overwrites userData:<id> with a text
\* that is not a stored sample, keeping the expiry of the key
ForeignSet(id, text) ==
  /\ userData[id] # << >>
  /\ userData[id][1].text # text
  /\ userData' = [userData EXCEPT ![id] = << [text |-> text, expireAt |-> userData[id][1].expireAt] >>]
  /\ sent' = << >>
  /\ UNCHANGED << readyState, userSockets, geo, speedHistory, inflight, clock, budget >>

----------------------------------------------------------------------------
(* Time *)

\* d milliseconds pass; Redis drops the keys whose expiry is reached
Tick(d) ==
  /\ budget.ticks > 0
  /\ budget' = [budget EXCEPT !.ticks = @ - 1]
  /\ clock' = clock + d
  /\ userData' = [id \in Ids |->
                    IF userData[id] # << >> /\ userData[id][1].expireAt <= clock + d
                    THEN << >> ELSE userData[id]]
  /\ sent' = << >>
  /\ UNCHANGED << readyState, userSockets, geo, speedHistory, inflight >>

----------------------------------------------------------------------------
(* Specifications *)

\* the whole service: connections, messages of every kind, Redis failures, time
Next ==
  \/ \E c \in Channels : Connect(c)
  \/ \E c \in Channels : Close(c)
  \/ \E c \in Channels : ReceiveUnparsable(c)
  \/ \E c \in Channels : \E data \in Messages(clock) : ReceiveMessage(c, data)
  \/ \E ok \in BOOLEAN : GeoAddReturns(ok)
  \/ \E ok \in BOOLEAN : SetReturns(ok)
  \/ \E ok \in BOOLEAN : RadiusReturns(ok)
  \/ \E ok \in BOOLEAN : MGetReturns(ok)
  \/ \E d \in TickSteps : Tick(d)

Spec == Init /\ [][Next]_vars

\* the threat pipeline: messages handled one at a time over a working Redis,
\* with the samples that make each predictor fire
InitThreats == Started(Budget(MaxThreatMsgs, 0, 0, 1))

NextThreats ==
  \/ \E c \in Channels : Connect(c)
  \/ \E c \in Channels : Close(c)
  \/ \E c \in Channels : \E data \in ThreatMessages(clock) : ReceiveMessage(c, data)
  \/ GeoAddReturns(TRUE)
  \/ SetReturns(TRUE)
  \/ RadiusReturns(TRUE)
  \/ MGetReturns(TRUE)

SpecThreats == InitThreats /\ [][NextThreats]_vars

\* ageing: samples stored over a working Redis grow stale and expire as
\* time passes, while other vehicles keep reporting
InitAging == Started(Budget(MaxAgingMsgs, MaxAgingTicks, 0, 1))

NextAging ==
  \/ \E c \in Channels : Connect(c)
  \/ \E c \in Channels : Close(c)
  \/ \E c \in Channels : \E data \in AgingMessages(clock) : ReceiveMessage(c, data)
  \/ GeoAddReturns(TRUE)
  \/ SetReturns(TRUE)
  \/ RadiusReturns(TRUE)
  \/ MGetReturns(TRUE)
  \/ \E d \in AgingSteps : Tick(d)

SpecAging == InitAging /\ [][NextAging]_vars

\* crossing and overtaking traffic over a working Redis
InitCrossing == Started(Budget(MaxCrossingMsgs, 0, 0, 1))

NextCrossing ==
  \/ \E c \in Channels : Connect(c)
  \/ \E c \in Channels : Close(c)
  \/ \E c \in Channels : \E data \in CrossingMessages(clock) : ReceiveMessage(c, data)
  \/ GeoAddReturns(TRUE)
  \/ SetReturns(TRUE)
  \/ RadiusReturns(TRUE)
  \/ MGetReturns(TRUE)

SpecCrossing == InitCrossing /\ [][NextCrossing]_vars

\* braking traffic: a second passes between the samples of a vehicle
InitBraking == Started(Budget(MaxBrakingMsgs, MaxBrakingTicks, 0, 1))

NextBraking ==
  \/ \E c \in Channels : Connect(c)
  \/ \E c \in Channels : Close(c)
  \/ \E c \in Channels : \E data \in BrakingMessages(clock) : ReceiveMessage(c, data)
  \/ GeoAddReturns(TRUE)
  \/ SetReturns(TRUE)
  \/ RadiusReturns(TRUE)
  \/ MGetReturns(TRUE)
  \/ \E d \in BrakingSteps : Tick(d)

SpecBraking == InitBraking /\ [][NextBraking]_vars

\* oncoming traffic over a working Redis
InitHeadOn == Started(Budget(MaxHeadOnMsgs, 0, 0, 1))

NextHeadOn ==
  \/ \E c \in Channels : Connect(c)
  \/ \E c \in Channels : Close(c)
  \/ \E c \in Channels : \E data \in HeadOnMessages(clock) : ReceiveMessage(c, data)
  \/ GeoAddReturns(TRUE)
  \/ SetReturns(TRUE)
  \/ RadiusReturns(TRUE)
  \/ MGetReturns(TRUE)

SpecHeadOn == InitHeadOn /\ [][NextHeadOn]_vars

\* a vehicle heading against the others, near and far, over a working Redis
InitWrongWay == Started(Budget(MaxWrongWayMsgs, 0, 0, 1))

NextWrongWay ==
  \/ \E c \in Channels : Connect(c)
  \/ \E c \in Channels : Close(c)
  \/ \E c \in Channels : \E data \in WrongWayMessages(clock) : ReceiveMessage(c, data)
  \/ GeoAddReturns(TRUE)
  \/ SetReturns(TRUE)
  \/ RadiusReturns(TRUE)
  \/ MGetReturns(TRUE)

SpecWrongWay == InitWrongWay /\ [][NextWrongWay]_vars

\* every Redis call returns in the end, with a result or with an error,
\* while messages of two vehicles are handled side by side
InitLive == Started(Budget(MaxLiveMsgs, 0, MaxLiveFailures, MaxLiveInFlight))

NextLive ==
  \/ \E c \in Channels : Connect(c)
  \/ \E c \in Channels : Close(c)
  \/ \E c \in Channels : \E data \in LiveMessages(clock) : ReceiveMessage(c, data)
  \/ \E ok \in BOOLEAN : GeoAddReturns(ok)
  \/ \E ok \in BOOLEAN : SetReturns(ok)
  \/ \E ok \in BOOLEAN : RadiusReturns(ok)
  \/ \E ok \in BOOLEAN : MGetReturns(ok)

\* a handler is suspended at await redisClient.mGet
MGetPending == inflight # << >> /\ Head(inflight).pc = "mGet"

\* the step of MGetReturns, by what it does to the queue: no other step
\* removes a handler suspended at mGet
MGetEnds == MGetPending /\ inflight' = Tail(inflight)

\* weak fairness of the return of each Redis call.  That of mGet is written
\* out as []<>~ENABLED \/ []<><<A>>_vars, with MGetPending for ENABLED
\* (MGetReturns(TRUE) is enabled exactly when a handler waits for mGet) and
\* MGetEnds for the action
SpecLive ==
  /\ InitLive /\ [][NextLive]_vars
  /\ WF_vars(\E ok \in BOOLEAN : GeoAddReturns(ok))
  /\ WF_vars(\E ok \in BOOLEAN : SetReturns(ok))
  /\ WF_vars(\E ok \in BOOLEAN : RadiusReturns(ok))
  /\ ([]<>~MGetPending \/ []<><<MGetEnds>>_vars)

\* pushes that fail: a send to a neighbour's socket may throw
InitSendFails == Started(Budget(MaxSendFailsMsgs, 0, 0, 1))

NextSendFails ==
  \/ \E c \in Channels : Connect(c)
  \/ \E c \in Channels : Close(c)
  \/ \E c \in Channels : \E data \in WrongWayMessages(clock) : ReceiveMessage(c, data)
  \/ GeoAddReturns(TRUE)
  \/ SetReturns(TRUE)
  \/ RadiusReturns(TRUE)
  \/ MGetReturns(TRUE)
  \/ \E thrown \in SUBSET Channels : MGetReturnsSendThrows(thrown)

SpecSendFails == InitSendFails /\ [][NextSendFails]_vars

\* stored samples overwritten with texts that do not parse
InitForeign == Started(Budget(MaxForeignMsgs, 0, 0, 1))

NextForeign ==
  \/ \E c \in Channels : Connect(c)
  \/ \E c \in Channels : Close(c)
  \/ \E c \in Channels : \E data \in WrongWayMessages(clock) : ReceiveMessage(c, data)
  \/ GeoAddReturns(TRUE)
  \/ SetReturns(TRUE)
  \/ RadiusReturns(TRUE)
  \/ MGetReturns(TRUE)
  \/ \E id \in Ids : \E text \in ForeignTexts : ForeignSet(id, text)

SpecForeign == InitForeign /\ [][NextForeign]_vars

\* Two messages of a turning vehicle and an oncoming one, without failures
InitTurn == Started(Budget(MaxTurnMsgs, 0, 0, 1))

NextTurn ==
  \/ \E c \in Channels : Connect(c)
  \/ \E c \in Channels : Close(c)
  \/ \E c \in Channels : \E data \in TurnMessages(clock) : ReceiveMessage(c, data)
  \/ GeoAddReturns(TRUE)
  \/ SetReturns(TRUE)
  \/ RadiusReturns(TRUE)
  \/ MGetReturns(TRUE)

SpecTurn == InitTurn /\ [][NextTurn]_vars

\* Two messages with headings inside and outside [0, 360)
InitHeadings == Started(Budget(MaxHeadingMsgs, 0, 0, 1))

NextHeadings ==
  \/ \E c \in Channels : Connect(c)
  \/ \E c \in Channels : Close(c)
  \/ \E c \in Channels : \E data \in HeadingMessages(clock) : ReceiveMessage(c, data)
  \/ GeoAddReturns(TRUE)
  \/ SetReturns(TRUE)
  \/ RadiusReturns(TRUE)
  \/ MGetReturns(TRUE)

SpecHeadings == InitHeadings /\ [][NextHeadings]_vars

\* Three messages with speeds that are and are not finite and positive
InitSpeeds == Started(Budget(MaxSpeedMsgs, 0, 0, 1))

NextSpeeds ==
  \/ \E c \in Channels : Connect(c)
  \/ \E c \in Channels : Close(c)
  \/ \E c \in Channels : \E data \in SpeedMessages(clock) : ReceiveMessage(c, data)
  \/ GeoAddReturns(TRUE)
  \/ SetReturns(TRUE)
  \/ RadiusReturns(TRUE)
  \/ MGetReturns(TRUE)

SpecSpeeds == InitSpeeds /\ [][NextSpeeds]_vars

\* Three messages of two standing vehicles with the same or opposite headings
InitOpposite == Started(Budget(MaxOppositeMsgs, 0, 0, 1))

NextOpposite ==
  \/ \E c \in Channels : Connect(c)
  \/ \E c \in Channels : Close(c)
  \/ \E c \in Channels : \E data \in OppositeMessages(clock) : ReceiveMessage(c, data)
  \/ GeoAddReturns(TRUE)
  \/ SetReturns(TRUE)
  \/ RadiusReturns(TRUE)
  \/ MGetReturns(TRUE)

SpecOpposite == InitOpposite /\ [][NextOpposite]_vars

\* Three messages, with and without a usable timestamp
InitUndated == Started(Budget(MaxUndatedMsgs, 0, 0, 1))

NextUndated ==
  \/ \E c \in Channels : Connect(c)
  \/ \E c \in Channels : Close(c)
  \/ \E c \in Channels : \E data \in UndatedMessages(clock) : ReceiveMessage(c, data)
  \/ GeoAddReturns(TRUE)
  \/ SetReturns(TRUE)
  \/ RadiusReturns(TRUE)
  \/ MGetReturns(TRUE)

SpecUndated == InitUndated /\ [][NextUndated]_vars

\* B, then two messages of A, the second received while the handler of the
\* first is suspended or after it; a working Redis answers in the order of
\* the calls
InitPipelined == Started(Budget(MaxPipelinedMsgs, 0, 0, MaxPipelinedInFlight))

NextPipelined ==
  \/ \E c \in Channels : Connect(c)
  \/ \E c \in Channels : Close(c)
  \/ \E c \in Channels : \E data \in PipelinedMessages(budget.msgs, clock) :
       ReceiveMessage(c, data)
  \/ GeoAddReturns(TRUE)
  \/ SetReturns(TRUE)
  \/ RadiusReturns(TRUE)
  \/ MGetReturns(TRUE)

SpecPipelined == InitPipelined /\ [][NextPipelined]_vars

\* More messages than a history holds, all at one instant
InitHistory == Started(Budget(MaxHistoryMsgs, 0, 0, 1))

NextHistory ==
  \/ \E c \in Channels : Connect(c)
  \/ \E c \in Channels : Close(c)
  \/ \E c \in Channels : \E data \in HistoryMessages(clock) : ReceiveMessage(c, data)
  \/ GeoAddReturns(TRUE)
  \/ SetReturns(TRUE)
  \/ RadiusReturns(TRUE)
  \/ MGetReturns(TRUE)

SpecHistory == InitHistory /\ [][NextHistory]_vars

\* Four messages, two of them half a second apart
InitQuick == Started(Budget(MaxQuickMsgs, MaxQuickTicks, 0, 1))

NextQuick ==
  \/ \E c \in Channels : Connect(c)
  \/ \E c \in Channels : Close(c)
  \/ \E c \in Channels : \E data \in HistoryMessages(clock) : ReceiveMessage(c, data)
  \/ GeoAddReturns(TRUE)
  \/ SetReturns(TRUE)
  \/ RadiusReturns(TRUE)
  \/ MGetReturns(TRUE)
  \/ \E d \in QuickSteps : Tick(d)

SpecQuick == InitQuick /\ [][NextQuick]_vars

----------------------------------------------------------------------------
(* Claims *)

Sends == {sent[i] : i \in 1..Len(sent)}
Acks == {s \in Sends : s.status = "received"}
Pushes == {s \in Sends : s.status = "threat"}
ThreatsOf(ack) == {ack.threats[j] : j \in 1..Len(ack.threats)}

\* C1: while one message is handled, at most one threat naming a given
\* neighbour is put in the acknowledgment, and at most one push is sent on
\* behalf of that neighbour.
C1_OneThreatPerNeighbor ==
  \A id \in Ids :
    /\ Cardinality({i \in 1..Len(sent) : sent[i].status = "threat" /\ sent[i].peer = id}) <= 1
    /\ \A ack \in Acks :
         Cardinality({j \in 1..Len(ack.threats) : ack.threats[j].id = id}) <= 1

C1_Witness ==
  \E ack \in Acks : Len(ack.threats) = 2 /\ Cardinality(Pushes) = 2

\* C2: no two pipelines of one session are under way at the same time.
C2_PipelinesDoNotOverlap ==
  \A i, j \in 1..Len(inflight) : inflight[i].ch = inflight[j].ch => i = j

\* C3: once the close of a channel has been handled, no id of the registry
\* maps to that channel.
C3_NoBindingToClosedChannel ==
  \A c \in Channels : readyState[c] = "CLOSED" =>
    \A i \in 1..Len(userSockets) : userSockets[i].ws # c

\* C4: every threat of the acknowledgment is mirrored by a push of the same
\* type on the neighbour's bound channel exactly when the registry binds the
\* neighbour and that channel is OPEN; every push mirrors a threat of the
\* acknowledgment and goes to that channel, so without a binding or with a
\* channel that is not OPEN no push is sent for the threat.
C4_PushIffBoundAndOpen ==
  /\ \A ack \in Acks : \A th \in ThreatsOf(ack) :
       LET ws == MapGet(userSockets, th.id)
       IN (ws # NoSocket /\ readyState[ws] = "OPEN")
          <=> (\E p \in Pushes : p.peer = th.id /\ p.threats[1].type = th.type)
  /\ \A p \in Pushes :
       /\ p.ch = MapGet(userSockets, p.peer)
       /\ readyState[p.ch] = "OPEN"
       /\ \E ack \in Acks : \E th \in ThreatsOf(ack) :
            th.id = p.peer /\ th.type = p.threats[1].type /\ ack.msg = p.msg

\* a threat whose neighbour is still bound, to a channel that has closed
C4_Witness ==
  \E ack \in Acks : \E th \in ThreatsOf(ack) :
    /\ MapGet(userSockets, th.id) # NoSocket
    /\ readyState[MapGet(userSockets, th.id)] = "CLOSED"
    /\ Pushes = {}

\* C5: a threat of the acknowledgment describes the neighbour (its id and
\* its stored position and heading) and never the sender; a push describes
\* the sender of the message and never the neighbour it is sent for.
C5_RecipientRelative ==
  /\ \A ack \in Acks : \A th \in ThreatsOf(ack) :
       /\ th.id # ack.msg.userId.s
       /\ th.id \in Ids
       /\ userData[th.id] # << >>
       /\ LET stored == userData[th.id][1].text
          IN /\ th.lat = stored.latitude /\ th.lng = stored.longitude
             /\ th.sourceVehicle.userId = th.id
             /\ th.sourceVehicle.latitude = stored.latitude
             /\ th.sourceVehicle.longitude = stored.longitude
             /\ th.sourceVehicle.heading = JNum(normalizeHeadingDeg(stored.heading))
  /\ \A p \in Pushes :
       LET th == p.threats[1]
       IN /\ th.id # p.peer
          /\ th.id = p.msg.userId.s
          /\ th.lat = p.msg.latitude /\ th.lng = p.msg.longitude
          /\ th.sourceVehicle.userId = p.msg.userId.s
          /\ th.sourceVehicle.latitude = p.msg.latitude
          /\ th.sourceVehicle.longitude = p.msg.longitude
          /\ th.sourceVehicle.heading = JNum(normalizeHeadingDeg(p.msg.heading))

C5_Witness ==
  \E ack \in Acks : \E p \in Pushes :
    ack.threats # << >> /\ p.open /\ p.ch # ack.ch

\* C6: a valid message of id X accepted from channel c binds X to c; the
\* registry never holds two bindings of one id; and a binding X -> c changes
\* only when a valid message of X is accepted from another channel or c closes.
C6_BindingFollowsMessages ==
  [][ /\ \A i, j \in 1..Len(userSockets') :
           userSockets'[i].uid = userSockets'[j].uid => i = j
      /\ Len(inflight') = Len(inflight) + 1 =>
           MapGet(userSockets', inflight'[Len(inflight')].data.userId.s)
             = inflight'[Len(inflight')].ch
      /\ \A id \in Ids :
           LET c == MapGet(userSockets, id)
           IN (c # NoSocket /\ MapGet(userSockets', id) # c) =>
                \/ readyState[c] = "OPEN" /\ readyState'[c] = "CLOSED"
                \/ /\ Len(inflight') = Len(inflight) + 1
                   /\ inflight'[Len(inflight')].data.userId.s = id
                   /\ inflight'[Len(inflight')].ch # c
                   /\ MapGet(userSockets', id) = inflight'[Len(inflight')].ch
    ]_vars

\* an id bound to one channel has just been rebound by a message on another
C6_Witness ==
  /\ Len(inflight) = 2
  /\ inflight[1].pc = "geoAdd" /\ inflight[2].pc = "geoAdd"
  /\ inflight[1].data.userId = inflight[2].data.userId
  /\ inflight[1].ch # inflight[2].ch
  /\ MapGet(userSockets, inflight[2].data.userId.s) = inflight[2].ch

\* the messages the claim calls invalid, and the reason each is answered with
C7_Reason(data) ==
  IF data.userId.type # "string" \/ data.userId.s \in {"", " "} THEN "missing userId"
  ELSE IF data.latitude.type # "number" \/ data.longitude.type # "number"
       THEN "invalid coordinates"
  ELSE ""

\* C7: a parsed message that fails validation is answered with exactly one
\* error response on its own channel, with the reason of the failed check,
\* and changes neither the geo index, the telemetry store, the speed history
\* nor the registry; it starts no handler and no push is sent.
C7_InvalidMessageOnlyAnswered ==
  [][ /\ \A i \in 1..Len(inflight') : C7_Reason(inflight'[i].data) = ""
      /\ \A i \in 1..Len(sent') :
           (sent'[i].status = "error" \/ C7_Reason(sent'[i].msg) # "") =>
             /\ Len(sent') = 1
             /\ sent'[1].status = "error"
             /\ sent'[1].reason = C7_Reason(sent'[1].msg)
             /\ sent'[1].reason # ""
             /\ readyState[sent'[1].ch] = "OPEN"
             /\ UNCHANGED << geo, userData, speedHistory, userSockets, inflight >>
    ]_vars

\* an error response while the registry and the stores hold data
C7_Witness ==
  /\ Len(sent) = 1 /\ sent[1].status = "error" /\ sent[1].reason = "invalid coordinates"
  /\ userSockets # << >>
  /\ \E id \in Ids : geo[id] # << >> /\ userData[id] # << >>

\* C8: a message with a coordinate that is not finite starts no handler and
\* is never written to the telemetry store (where JSON turns it into null).
C8_NonFiniteRejected ==
  /\ \A i \in 1..Len(inflight) :
       IsFinite(inflight[i].data.latitude) /\ IsFinite(inflight[i].data.longitude)
  /\ \A id \in Ids : userData[id] # << >> =>
       /\ userData[id][1].text.latitude.type = "number"
       /\ userData[id][1].text.longitude.type = "number"

C10_GeoIffTelemetry ==
  (/\ inflight = << >>
   /\ \A id \in Ids : userData[id] # << >> =>
        userData[id][1].text.latitude.type = "number")
  => \A id \in Ids : (geo[id] # << >>) <=> (userData[id] # << >>)

\* the ids of the handlers under way
Handled == {inflight[i].data.userId.s : i \in 1..Len(inflight)}

\* C11: a vehicle whose telemetry entry has expired, and for which no message
\* is being handled, has left the working set: it is no longer in the geo
\* index (so no radius query returns it) and it has no speed history.
C11_ExpiredVehicleLeaves ==
  \A id \in Ids :
    (userData[id] = << >> /\ id \notin Handled) =>
      (geo[id] = << >> /\ speedHistory[id] = << >>)

\* the expiry the claim gives a sample, in milliseconds
C12_TtlMs(data) ==
  IF data.speed.type = "number" /\ data.speed.v > 5 THEN 10000 ELSE 30000

\* C12: the step that stores a message writes the full sample under the
\* sender's id, expiring 10 s later when its speed is above 5 and 30 s later
\* otherwise (also without a speed), replacing the entry and its expiry; an
\* entry changes only so or by expiring, no entry outlives its expiry, and a
\* neighbour whose entry has expired is fetched as null: no threat names it.
C12_TelemetryTtl ==
  [][ /\ (inflight # << >> /\ inflight' # inflight /\ Head(inflight).pc = "set") =>
           LET d == Head(inflight).data
           IN /\ userData'[d.userId.s] # << >>
              /\ JSONparse(userData'[d.userId.s][1].text) = d
              /\ userData'[d.userId.s][1].expireAt = clock + C12_TtlMs(d)
      /\ \A id \in Ids :
           userData'[id] # userData[id] =>
             \/ /\ inflight # << >> /\ Head(inflight).pc = "set"
                /\ Head(inflight).data.userId.s = id
             \/ /\ userData'[id] = << >>
                /\ userData[id][1].expireAt <= clock'
      /\ \A id \in Ids : userData'[id] # << >> => userData'[id][1].expireAt > clock'
      /\ \A i \in 1..Len(sent') : \A j \in 1..Len(sent'[i].threats) :
           sent'[i].status = "received" => userData[sent'[i].threats[j].id] # << >>
    ]_vars

\* 15 s after start-up the entry of A (speed 6) has expired, while the entry
\* of B (no speed), stored before the 15 s passed, has 15 s left
C12_Witness ==
  /\ clock = ClockStart + 15000
  /\ userData["A"] = << >> /\ geo["A"] # << >>
  /\ userData["B"] # << >>
  /\ userData["B"][1].text.speed.type = "absent"
  /\ userData["B"][1].expireAt = clock + 15000

\* the neighbours of a handler whose stored timestamp is more than STALE_MS old
C13_StaleIds(h) ==
  {id \in {h.otherIds[i] : i \in 1..Len(h.otherIds)} :
     /\ userData[id] # << >>
     /\ clock - userData[id][1].text.timestamp.v > STALE_MS}

\* the handler's context with the majority heading taken over the sender and
\* the neighbours that are not stale
C13_FreshContext(h) ==
  LET fetched == [i \in 1..Len(h.otherIds) |->
                    IF userData[h.otherIds[i]] = << >> THEN << >>
                    ELSE << userData[h.otherIds[i]][1].text >>]
      fresh == [i \in 1..Len(h.otherIds) |->
                  IF h.otherIds[i] \in C13_StaleIds(h) THEN << >> ELSE fetched[i]]
  IN [data |-> h.data, otherIds |-> h.otherIds, usersData |-> fetched,
      now |-> clock, history |-> speedHistory', sockets |-> userSockets,
      readyState |-> readyState,
      majorityDirection |-> MajorityDirection(h.data, h.otherIds, fresh)]

\* C13: when a handler evaluates its neighbours, a stale neighbour is the
\* counterpart of no threat and receives no push, and the threats are those
\* found with the majority heading of the sender and the neighbours that are
\* not stale.
C13_StaleNeverContributes ==
  [][ (inflight # << >> /\ Head(inflight).pc = "mGet" /\ inflight' = Tail(inflight)) =>
        LET h == Head(inflight)
            ack == sent'[Len(sent')]
        IN /\ \A id \in C13_StaleIds(h) :
                /\ \A j \in 1..Len(ack.threats) : ack.threats[j].id # id
                /\ \A i \in 1..Len(sent') : sent'[i].peer # id
           /\ ack.threats = MainLoop(C13_FreshContext(h), 1).threats
    ]_vars

\* the context in which the handler at the head of the queue evaluates its
\* neighbours once mGet has returned
LoopContext(h) ==
  LET fetched == [i \in 1..Len(h.otherIds) |->
                    IF userData[h.otherIds[i]] = << >> THEN << >>
                    ELSE << userData[h.otherIds[i]][1].text >>]
  IN [data |-> h.data, otherIds |-> h.otherIds, usersData |-> fetched,
      now |-> clock, history |-> speedHistory', sockets |-> userSockets,
      readyState |-> readyState,
      majorityDirection |-> MajorityDirection(h.data, h.otherIds, fetched)]

\* the positions of otherIds whose sample was fetched and is not stale
Evaluated(h) ==
  {i \in 1..Len(h.otherIds) :
     /\ userData[h.otherIds[i]] # << >>
     /\ ~IsStale(JSONparse(userData[h.otherIds[i]][1].text), clock)}

\* the type the five predictors give a pair, taken in the claimed order
C14_FirstMatch(c, other) ==
  LET k == Kin(c, other)
  IN IF CollisionTime(k.selfP, k.headingSelf, k.speedSelf,
                      k.otherP, k.headingOther, k.speedOther) # 0
     THEN << "predicted_collision" >>
     ELSE IF RearEnd(c.history[other.userId.s], k.distNow, k.speedSelf, k.speedOther)
     THEN << "rear_end" >>
     ELSE IF WrongDirection(k.headingOther, c.majorityDirection, k.distNow)
     THEN << "wrong_direction" >>
     ELSE IF IntersectionCondition(k) THEN << "intersection_collision" >>
     ELSE IF OvertakeCondition(k) THEN << "overtake" >>
     ELSE << >>

\* the types of the threats of an acknowledgment that name id, in order
RECURSIVE TypesNaming(_, _)
TypesNaming(threats, id) ==
  IF threats = << >> THEN << >>
  ELSE (IF Head(threats).id = id THEN << Head(threats).type >> ELSE << >>)
       \o TypesNaming(Tail(threats), id)

\* C14: for every neighbour evaluated, the acknowledgment holds one threat
\* naming it, of the type of the first of the five predictors
\* (predicted_collision, rear_end, wrong_direction, intersection_collision,
\* overtake) whose condition holds, and none when no condition holds.
C14_FirstOfFivePredictors ==
  [][ (inflight # << >> /\ Head(inflight).pc = "mGet" /\ inflight' = Tail(inflight)) =>
        LET h == Head(inflight)
            ack == sent'[Len(sent')]
        IN \A i \in Evaluated(h) :
             TypesNaming(ack.threats, h.otherIds[i])
               = C14_FirstMatch(LoopContext(h), JSONparse(userData[h.otherIds[i]][1].text))
    ]_vars

\* C15: a neighbour for which the intersection conditions hold (both speeds
\* at least 2.78 m/s, headings 60 to 120 degrees apart, closest approach
\* within 8 m and within TTC_MAX_SECONDS) and no earlier predictor fires is
\* named by an intersection_collision threat; so is B, 20 m east of A and
\* heading 90 at 8 m/s, when A at the origin reports heading 0 at 8 m/s.
C15_IntersectionEmitted ==
  [][ (inflight # << >> /\ Head(inflight).pc = "mGet" /\ inflight' = Tail(inflight)) =>
        LET h == Head(inflight)
            ack == sent'[Len(sent')]
        IN \A i \in Evaluated(h) :
             LET other == JSONparse(userData[h.otherIds[i]][1].text)
                 scenario4 == /\ h.data = SampleAt("A", 0, 0, 8, 0, h.data.timestamp.v)
                              /\ other = SampleAt("B", 0, 20, 8, 90, other.timestamp.v)
             IN (\/ C14_FirstMatch(LoopContext(h), other) = << "intersection_collision" >>
                 \/ scenario4)
                => \E j \in 1..Len(ack.threats) :
                     /\ ack.threats[j].id = h.otherIds[i]
                     /\ ack.threats[j].type = "intersection_collision"
    ]_vars

\* Scenario 2 is at hand: the handler at the head of the queue is about to
\* evaluate, for A at 15 m/s, the fresh sample of B 8 m ahead at 10 m/s,
\* and the last two speeds of B's history are 16 and 10, one second apart
C16_Scenario2 ==
  /\ inflight # << >>
  /\ Head(inflight).pc = "mGet"
  /\ Head(inflight).data = SampleAt("A", 0, 0, 15, 90, Head(inflight).data.timestamp.v)
  /\ Head(inflight).otherIds = << "B" >>
  /\ userData["B"] # << >>
  /\ JSONparse(userData["B"][1].text) = SampleAt("B", 0, 8, 10, 90, clock)
  /\ Len(speedHistory["B"]) >= 2
  /\ LET n == Len(speedHistory["B"])
     IN /\ speedHistory["B"][n - 1].speed = 16
        /\ speedHistory["B"][n].speed = 10
        /\ speedHistory["B"][n].t - speedHistory["B"][n - 1].t = 1000

\* the sends of a step are the acknowledgment of A with one threat of the
\* given type naming B, preceded by its mirror to the channel of B when B
\* is bound to an open channel
C16_OneThreat(type) ==
  LET ack == sent'[Len(sent')]
      wsB == MapGet(userSockets, "B")
  IN /\ ack.status = "received" /\ ack.ch = Head(inflight).ch
     /\ Len(ack.threats) = 1
     /\ ack.threats[1].id = "B" /\ ack.threats[1].type = type
     /\ IF wsB # NoSocket /\ readyState[wsB] = "OPEN"
        THEN /\ Len(sent') = 2
             /\ sent'[1].status = "threat" /\ sent'[1].ch = wsB
             /\ sent'[1].threats[1].type = type /\ sent'[1].threats[1].id = "A"
        ELSE Len(sent') = 1

\* C16 as stated: in Scenario 2 the message of A yields exactly one threat
\* for the pair, of type rear_end, in A's acknowledgment and mirrored to B.
C16_Scenario2RearEnd ==
  [][ (C16_Scenario2 /\ inflight' = Tail(inflight)) => C16_OneThreat("rear_end") ]_vars

\* C16 amended: in Scenario 2 the message of A yields exactly one threat for
\* the pair, of type predicted_collision with time_s 1 and future_distance_m
\* 3 (after one second A is at 15 m and B at 18 m), in A's acknowledgment and
\* mirrored to B: the predicted collision is tried before the rear-end.
C16_Scenario2PredictedCollision ==
  [][ (C16_Scenario2 /\ inflight' = Tail(inflight)) =>
        /\ C16_OneThreat("predicted_collision")
        /\ sent'[Len(sent')].threats[1].time_s = JNum(1)
        /\ sent'[Len(sent')].threats[1].future_distance_m = JNum(300)
    ]_vars

\* the message of A in Scenario 2 has been answered and mirrored to B
C16_Witness ==
  /\ Len(sent) = 2
  /\ sent[2].status = "received" /\ sent[2].msg.userId.s = "A"
  /\ sent[2].threats # << >> /\ sent[2].threats[1].id = "B"
  /\ sent[1].status = "threat" /\ sent[1].open /\ sent[1].ch # sent[2].ch
  /\ Len(speedHistory["B"]) = 2
  /\ speedHistory["B"][1].speed = 16 /\ speedHistory["B"][2].speed = 10
  /\ speedHistory["B"][2].t - speedHistory["B"][1].t = 1000
  /\ userData["B"] # << >> /\ userData["B"][1].text.speed = JNum(10)

\* Scenario 1 is at hand: A's sample (at the origin, heading 90 at 10 m/s) is
\* stored and fresh, A is bound to an open channel, and the handler at the
\* head of the queue is that of B's message from lng metres east of A,
\* received on another open channel
C17_Scenario1(lng) ==
  /\ inflight # << >>
  /\ Head(inflight).data = SampleAt("B", 0, lng, 10, 270, Head(inflight).data.timestamp.v)
  /\ readyState[Head(inflight).ch] = "OPEN"
  /\ geo["A"] # << >> /\ userData["A"] # << >>
  /\ JSONparse(userData["A"][1].text) = SampleAt("A", 0, 0, 10, 90, clock)
  /\ MapGet(userSockets, "A") \notin {NoSocket, Head(inflight).ch}
  /\ readyState[MapGet(userSockets, "A")] = "OPEN"

\* the step ends the handler at the head of the queue
C17_Ends == inflight # << >> /\ inflight' = Tail(inflight)

\* the sends of a step are one push of a predicted collision to the channel
\* of A and then the acknowledgment of B with that one threat, at a time of
\* T and at a distance of at most maxCm hundredths of a metre
C17_OneCollision(T, maxCm) ==
  /\ Len(sent') = 2
  /\ sent'[1].status = "threat" /\ sent'[1].ch = MapGet(userSockets, "A")
  /\ sent'[1].threats[1].type = "predicted_collision"
  /\ sent'[2].status = "received" /\ sent'[2].ch = Head(inflight).ch
  /\ Len(sent'[2].threats) = 1
  /\ sent'[2].threats[1].type = "predicted_collision"
  /\ sent'[2].threats[1].id = "A"
  /\ sent'[2].threats[1].time_s \in {JNum(t) : t \in T}
  /\ sent'[2].threats[1].future_distance_m \in {JNum(cm) : cm \in 0..maxCm}

\* C17 as stated: in Scenario 1, with B 100 m east of A, the handler of B's
\* message ends with one predicted_collision threat in B's acknowledgment,
\* time_s 4 or 5 and future_distance_m at most 4, mirrored once to A.
C17_Scenario1Collision ==
  [][ (C17_Scenario1(100) /\ C17_Ends) => C17_OneCollision({4, 5}, 400) ]_vars

\* C17 amended: with B 100 m east of A the radius query of B does not
\* return A (the radius is 75 m): the handler ends after the query with the
\* acknowledgment "received" with no threats and A receives no push.  With
\* B 60 m east of A the handler ends with one predicted_collision threat,
\* time_s 3 and future_distance_m 0, mirrored once to A.
C17_Scenario1OutOfRange ==
  [][ /\ (C17_Scenario1(100) /\ Head(inflight).pc = "geoRadiusByMember"
            /\ inflight' # inflight) =>
           /\ inflight' = Tail(inflight)
           /\ Len(sent') = 1
           /\ sent'[1].status = "received" /\ sent'[1].threats = << >>
           /\ sent'[1].ch = Head(inflight).ch
      /\ (C17_Scenario1(100) /\ Head(inflight).pc = "mGet") => FALSE
      /\ (C17_Scenario1(60) /\ C17_Ends) => C17_OneCollision({3}, 0)
    ]_vars

\* B, 100 m east of A, has been answered with no threats while A, stored and
\* bound to an open channel, has received nothing
C17_Witness ==
  /\ Len(sent) = 1
  /\ sent[1].status = "received" /\ sent[1].threats = << >>
  /\ sent[1].msg.userId.s = "B" /\ sent[1].msg.longitude = JNum(100)
  /\ geo["B"] # << >> /\ geo["B"][1].lng = 100
  /\ geo["A"] # << >> /\ userData["A"] # << >>
  /\ MapGet(userSockets, "A") # NoSocket
  /\ readyState[MapGet(userSockets, "A")] = "OPEN"

\* the smaller of the two arcs between the headings a and b, in degrees
C18_SmallestArc(a, b) ==
  LET d == IF a >= b THEN a - b ELSE b - a
  IN Min(d, 360 - d)

\* neither a predicted collision nor a rear-end is found for the pair
C18_NoEarlier(c, other) ==
  LET k == Kin(c, other)
  IN /\ CollisionTime(k.selfP, k.headingSelf, k.speedSelf,
                      k.otherP, k.headingOther, k.speedOther) = 0
     /\ ~RearEnd(c.history[other.userId.s], k.distNow, k.speedSelf, k.speedOther)

\* the neighbour heads against the majority and is at most 40 m away
C18_Against(c, other) ==
  LET dLat == other.latitude.v - c.data.latitude.v
      dLng == other.longitude.v - c.data.longitude.v
  IN /\ C18_SmallestArc(Kin(c, other).headingOther, c.majorityDirection) >= 150
     /\ dLat * dLat + dLng * dLng <= 40 * 40

\* C18: when the handler ends after mGet, for every neighbour evaluated for
\* which neither the predicted collision nor the rear-end fires, the
\* acknowledgment holds a wrong_direction threat naming it if and only if
\* the smallest arc between its heading and the majority heading is at
\* least 150 degrees and it is at most 40 m away; the threat is then also
\* pushed to the neighbour's open channel.
C18_WrongDirectionIff ==
  [][ (inflight # << >> /\ Head(inflight).pc = "mGet" /\ inflight' = Tail(inflight)) =>
        LET h == Head(inflight)
            c == LoopContext(h)
            ack == sent'[Len(sent')]
        IN \A i \in Evaluated(h) :
             LET other == JSONparse(userData[h.otherIds[i]][1].text)
                 named == {j \in 1..Len(ack.threats) :
                             /\ ack.threats[j].id = h.otherIds[i]
                             /\ ack.threats[j].type = "wrong_direction"}
                 bound == MapGet(userSockets, h.otherIds[i])
                 pushed == {j \in 1..Len(sent') - 1 :
                              /\ sent'[j].status = "threat"
                              /\ sent'[j].peer = h.otherIds[i]
                              /\ sent'[j].threats[1].type = "wrong_direction"}
             IN C18_NoEarlier(c, other) =>
                  /\ (named # {}) <=> C18_Against(c, other)
                  /\ Cardinality(named) <= 1
                  /\ (bound # NoSocket /\ readyState[bound] = "OPEN") =>
                        ((pushed # {}) <=> C18_Against(c, other))
    ]_vars

\* Scenario 3: the standing A, with B (heading 90) and C (heading 270, 20 m
\* from A) stored, is answered with one wrong_direction threat naming C at
\* 20.00 m
C18_Witness ==
  /\ sent # << >>
  /\ LET ack == sent[Len(sent)]
     IN /\ ack.status = "received"
        /\ ack.msg = SampleAt("A", 0, 0, 0, 90, ack.msg.timestamp.v)
        /\ Len(ack.threats) = 1
        /\ ack.threats[1].type = "wrong_direction"
        /\ ack.threats[1].id = "C"
        /\ ack.threats[1].distance_m = JNum(2000)
  /\ userData["B"] # << >> /\ geo["C"] # << >> /\ geo["C"][1].lng = 20

\* no vehicle other than the sender of h is stored within the radius of the
\* query of h, while the sender itself is stored
C19_Alone(h) ==
  LET self == h.data.userId.s
      r == NearbyRadius(h.data)
  IN /\ geo[self] # << >>
     /\ \A id \in Ids \ {self} :
          \/ geo[id] = << >>
          \/ (geo[id][1].lat - geo[self][1].lat) * (geo[id][1].lat - geo[self][1].lat)
               + (geo[id][1].lng - geo[self][1].lng) * (geo[id][1].lng - geo[self][1].lng)
               > r * r

\* C19: when the radius query of a handler returns and no vehicle other
\* than the sender is within the radius (the sender may be the only vehicle
\* stored), the handler ends with exactly one send, the acknowledgment
\* "received" with an empty threats list on the origin channel, and nothing
\* is pushed to any other channel.
C19_NoNeighbourAck ==
  [][ (inflight # << >> /\ Head(inflight).pc = "geoRadiusByMember"
         /\ C19_Alone(Head(inflight)) /\ inflight' # inflight) =>
        /\ inflight' = Tail(inflight)
        /\ Len(sent') = 1
        /\ sent'[1].status = "received"
        /\ sent'[1].threats = << >>
        /\ sent'[1].ch = Head(inflight).ch
        /\ \A i \in 1..Len(sent') : sent'[i].status # "threat"
    ]_vars

\* A, the only vehicle stored, has been answered with no threats
C19_Witness ==
  /\ Len(sent) = 1
  /\ sent[1].status = "received" /\ sent[1].threats = << >>
  /\ sent[1].msg.userId.s = "A"
  /\ geo["A"] # << >>
  /\ \A id \in Ids \ {"A"} : geo[id] = << >>

\* the type of the first of the three predictors of the loop whose condition
\* holds for the pair, or none
C20_Detected(c, other) ==
  LET k == Kin(c, other)
  IN IF CollisionTime(k.selfP, k.headingSelf, k.speedSelf,
                      k.otherP, k.headingOther, k.speedOther) # 0
     THEN << "predicted_collision" >>
     ELSE IF RearEnd(c.history[other.userId.s], k.distNow, k.speedSelf, k.speedOther)
     THEN << "rear_end" >>
     ELSE IF WrongDirection(k.headingOther, c.majorityDirection, k.distNow)
     THEN << "wrong_direction" >>
     ELSE << >>

\* the sends of a step that ends the handler h: pushes of threats of the
\* message of h, then one acknowledgment "received" on the channel of h
C20_PushesThenAck(h) ==
  /\ sent' # << >>
  /\ sent'[Len(sent')].status = "received"
  /\ sent'[Len(sent')].ch = h.ch
  /\ sent'[Len(sent')].msg = h.data
  /\ \A j \in 1..(Len(sent') - 1) :
       /\ sent'[j].status = "threat"
       /\ sent'[j].msg = h.data
       /\ \E n \in 1..Len(sent'[Len(sent')].threats) :
            /\ sent'[Len(sent')].threats[n].id = sent'[j].peer
            /\ sent'[Len(sent')].threats[n].type = sent'[j].threats[1].type

\* the threats of the acknowledgment that ends h are those detected: none
\* when the handler ends without neighbours or mGet fails, else one for
\* every neighbour evaluated for which a predictor fires
C20_ThreatsAreDetected(h) ==
  LET ack == sent'[Len(sent')]
      c == LoopContext(h)
      found == {i \in Evaluated(h) :
                  C20_Detected(c, JSONparse(userData[h.otherIds[i]][1].text)) # << >>}
  IN IF h.pc # "mGet" \/ budget'.fails < budget.fails
     THEN ack.threats = << >>
     ELSE /\ Len(ack.threats) = Cardinality(found)
          /\ \A i \in Evaluated(h) :
               TypesNaming(ack.threats, h.otherIds[i])
                 = C20_Detected(c, JSONparse(userData[h.otherIds[i]][1].text))

\* the responses of one step: a message that fails validation is answered at
\* once with one error; a handler sends nothing before the step that ends
\* it, and that step sends the pushes and then the one acknowledgment
C20_OneResponse ==
  IF inflight # << >> /\ inflight' = Tail(inflight)
  THEN C20_PushesThenAck(Head(inflight)) /\ C20_ThreatsAreDetected(Head(inflight))
  ELSE \/ sent' = << >>
       \/ /\ Len(sent') = 1
          /\ sent'[1].status = "error"
          /\ ValidationError(sent'[1].msg) # ""
          /\ inflight' = inflight

\* the message data, received on channel c, is being handled
C20_Pending(c, data) ==
  \E i \in 1..Len(inflight) : inflight[i].ch = c /\ inflight[i].data = data

\* the last send of the latest step acknowledges data on channel c
C20_Acknowledged(c, data) ==
  /\ sent # << >>
  /\ sent[Len(sent)].status = "received"
  /\ sent[Len(sent)].ch = c
  /\ sent[Len(sent)].msg = data

\* C20: provided every Redis call returns in the end, every message that
\* passes validation is acknowledged with "received" on its origin channel,
\* and a message that fails validation is answered with one error at once;
\* a handler sends its one response in the step that ends it, after every
\* push of that message, and the threats of the acknowledgment are the
\* threats detected for the message.
C20_EveryMessageAnswered ==
  /\ \A c \in Channels : \A data \in LiveMessages(ClockStart) :
       C20_Pending(c, data) ~> C20_Acknowledged(c, data)
  /\ [][C20_OneResponse]_vars

\* a message has been acknowledged with a threat after its push to the
\* neighbour, while another handler is still suspended
C20_Witness ==
  /\ Len(sent) = 2
  /\ sent[1].status = "threat" /\ sent[1].open
  /\ sent[2].status = "received" /\ Len(sent[2].threats) = 1
  /\ sent[2].threats[1].id = sent[1].peer
  /\ inflight # << >>

\* C21: when the handler ends after mGet and a push of it threw, the
\* acknowledgment "received" is still sent last on the origin channel; the
\* threat whose push threw is in its threats; and every neighbour evaluated
\* has in the acknowledgment the threat detected for it, those after the
\* failed push included.
C21_PushFailureSwallowed ==
  [][ (inflight # << >> /\ Head(inflight).pc = "mGet" /\ inflight' = Tail(inflight)
         /\ \E j \in 1..Len(sent') : sent'[j].threw) =>
        LET h == Head(inflight)
            c == LoopContext(h)
            ack == sent'[Len(sent')]
        IN /\ ack.status = "received" /\ ack.ch = h.ch /\ ~ack.threw
           /\ \A j \in 1..Len(sent') :
                sent'[j].threw =>
                  /\ sent'[j].status = "threat"
                  /\ \E n \in 1..Len(ack.threats) :
                       /\ ack.threats[n].id = sent'[j].peer
                       /\ ack.threats[n].type = sent'[j].threats[1].type
           /\ \A i \in Evaluated(h) :
                TypesNaming(ack.threats, h.otherIds[i])
                  = C20_Detected(c, JSONparse(userData[h.otherIds[i]][1].text))
    ]_vars

\* the push of the first of two threats threw, and the acknowledgment holds
\* both threats
C21_Witness ==
  /\ Len(sent) = 3
  /\ sent[1].status = "threat" /\ sent[1].threw
  /\ sent[2].status = "threat"
  /\ sent[3].status = "received" /\ Len(sent[3].threats) = 2
  /\ sent[3].threats[1].id = sent[1].peer
  /\ sent[3].threats[2].id = sent[2].peer

\* the neighbours of h whose stored text throws when it is evaluated
C22_BadIds(h) ==
  {id \in {h.otherIds[i] : i \in 1..Len(h.otherIds)} :
     userData[id] # << >> /\ userData[id][1].text \in ForeignTexts}

\* the positions of otherIds of the neighbours that are not bad, in order
RECURSIVE C22_GoodPositions(_, _)
C22_GoodPositions(h, i) ==
  IF i > Len(h.otherIds) THEN << >>
  ELSE (IF h.otherIds[i] \in C22_BadIds(h) THEN << >> ELSE << i >>)
       \o C22_GoodPositions(h, i + 1)

\* the context of the handler h had the radius query not returned the bad
\* neighbours
C22_ContextWithout(h) ==
  LET pos == C22_GoodPositions(h, 1)
      ids == [n \in 1..Len(pos) |-> h.otherIds[pos[n]]]
      fetched == [n \in 1..Len(pos) |->
                    IF userData[ids[n]] = << >> THEN << >>
                    ELSE << userData[ids[n]][1].text >>]
  IN [data |-> h.data, otherIds |-> ids, usersData |-> fetched,
      now |-> clock, history |-> speedHistory', sockets |-> userSockets,
      readyState |-> readyState,
      majorityDirection |-> MajorityDirection(h.data, ids, fetched)]

\* C22: when the handler ends after mGet and the stored text of some of its
\* neighbours throws, the sends of the step are the pushes and the
\* acknowledgment "received" that the other neighbours alone would have
\* given: no threat names a bad neighbour and none is pushed to it.
C22_BadNeighbourSkipped ==
  [][ (inflight # << >> /\ Head(inflight).pc = "mGet" /\ inflight' = Tail(inflight)
         /\ C22_BadIds(Head(inflight)) # {}) =>
        LET h == Head(inflight)
            ack == sent'[Len(sent')]
            r == MainLoop(C22_ContextWithout(h), 1)
        IN /\ sent' # << >>
           /\ ack.status = "received" /\ ack.ch = h.ch
           /\ ack.threats = r.threats
           /\ SubSeq(sent', 1, Len(sent') - 1) = r.pushes
           /\ \A n \in 1..Len(ack.threats) : ack.threats[n].id \notin C22_BadIds(h)
           /\ \A j \in 1..Len(sent') : sent'[j].peer \notin C22_BadIds(h)
    ]_vars

\* the sender has been answered with a threat naming C while the text
\* stored for B does not parse
C22_Witness ==
  /\ sent # << >>
  /\ sent[Len(sent)].status = "received"
  /\ sent[Len(sent)].msg.userId.s = "A"
  /\ Len(sent[Len(sent)].threats) = 1
  /\ sent[Len(sent)].threats[1].id = "C"
  /\ userData["B"] # << >> /\ userData["B"][1].text = NotJSON
  /\ geo["B"] # << >>

\* a handler of a message received on channel c is suspended and c is closed
C23_PendingOnClosed(c) ==
  /\ readyState[c] = "CLOSED"
  /\ \E i \in 1..Len(inflight) : inflight[i].ch = c

\* a handler has ended with its acknowledgment sent on the closed channel c,
\* where the send delivers nothing
C23_CompletedOnClosed(c) ==
  /\ sent # << >>
  /\ sent[Len(sent)].status = "received"
  /\ sent[Len(sent)].ch = c
  /\ ~sent[Len(sent)].open

\* the steps of a handler whose origin channel is closed do what they do
\* when it is open: the writes that succeed are stored, and the step that
\* ends the handler pushes every threat detected to the neighbour's open
\* channel; no send throws, every push is on an open channel, and the only
\* send on a channel that is not open is the acknowledgment
C23_StepOnClosed ==
  (inflight # << >> /\ readyState[Head(inflight).ch] = "CLOSED" /\ inflight' # inflight
     /\ Len(inflight') <= Len(inflight)) =>
    LET h == Head(inflight)
        self == h.data.userId.s
        succeeded == budget' = budget
    IN /\ (h.pc = "geoAdd" /\ succeeded /\ GeoAddAccepted(h.data)) =>
            geo'[self] = << [lat |-> h.data.latitude.v, lng |-> h.data.longitude.v] >>
       /\ (h.pc = "set" /\ succeeded) =>
            (userData'[self] # << >> /\ JSONparse(userData'[self][1].text).speed = h.data.speed)
       /\ (h.pc = "mGet" /\ succeeded) =>
            \A i \in Evaluated(h) :
              LET other == JSONparse(userData[h.otherIds[i]][1].text)
                  bound == MapGet(userSockets, h.otherIds[i])
              IN (C20_Detected(LoopContext(h), other) # << >>
                    /\ bound # NoSocket /\ readyState[bound] = "OPEN") =>
                   \E j \in 1..Len(sent') :
                     /\ sent'[j].status = "threat"
                     /\ sent'[j].ch = bound
                     /\ sent'[j].peer = h.otherIds[i]
       /\ \A j \in 1..Len(sent') :
            /\ ~sent'[j].threw
            /\ sent'[j].status = "threat" => (sent'[j].open /\ readyState[sent'[j].ch] = "OPEN")
            /\ ~sent'[j].open => (j = Len(sent') /\ sent'[j].ch = h.ch)

\* C23: the close of a channel removes no handler from the queue; a handler
\* whose origin channel is closed goes through its remaining steps as it
\* would otherwise (writes, evaluation of the neighbours, pushes) and ends
\* with its acknowledgment, sent on the closed channel where it delivers
\* nothing; no send throws and no push goes to a channel that is not open.
C23_CloseCancelsNothing ==
  /\ \A c \in Channels : C23_PendingOnClosed(c) ~> C23_CompletedOnClosed(c)
  /\ [][C23_StepOnClosed]_vars
  /\ [][(readyState' # readyState) => (inflight' = inflight)]_vars

\* a handler whose origin channel was closed has pushed a threat to the
\* neighbour's open channel and then acknowledged on the closed channel
C23_Witness ==
  /\ Len(sent) = 2
  /\ sent[1].status = "threat" /\ sent[1].open
  /\ sent[2].status = "received" /\ ~sent[2].open
  /\ readyState[sent[2].ch] = "CLOSED"
  /\ Len(sent[2].threats) = 1

\* the set of the threats of a list
C24_ThreatSet(threats) == {threats[n] : n \in 1..Len(threats)}

\* the context of the handler that processes the sample of h once more after
\* the step that ends h, the radius query returning the same neighbours in
\* the order otherIds: the neighbours' stored samples, the clock and the
\* registry are those of the first run, and the sender's history holds one
\* more sample
C24_SecondRun(h, otherIds) ==
  LET fetched == [i \in 1..Len(otherIds) |->
                    IF userData[otherIds[i]] = << >> THEN << >>
                    ELSE << userData[otherIds[i]][1].text >>]
  IN [data |-> h.data, otherIds |-> otherIds, usersData |-> fetched, now |-> clock,
      history |-> PushHistory(speedHistory', h.data.userId.s, SpeedOf(h.data.speed), clock),
      sockets |-> userSockets, readyState |-> readyState,
      majorityDirection |-> MajorityDirection(h.data, otherIds, fetched)]

C24_NoRearEnd(threats) == \A n \in 1..Len(threats) : threats[n].type # "rear_end"

----------------------------------------------------------------------------
(* Symmetry of the collision predictor *)

\* the steps t at which an acknowledgment holds a predicted_collision threat
\* naming id
C25_StepsAgainst(ack, id) ==
  {ack.threats[j].time_s.v : j \in {n \in 1..Len(ack.threats) :
                                      /\ ack.threats[n].type = "predicted_collision"
                                      /\ ack.threats[n].id = id}}

\* the radius query of the handler returns a when b sends its stored sample
\* once more: b is added to the geo index where the sample says, and the
\* query is made with the radius of the sample
C25_Found(b, a, index, texts) ==
  LET data == JSONparse(texts[b][1].text)
      added == [index EXCEPT ![b] = << [lat |-> data.latitude.v, lng |-> data.longitude.v] >>]
  IN a \in OtherIds(GeoRadiusByMember(added, b, NearbyRadius(data)), b)

\* the steps at which the handler emits predicted_collision against a when
\* b sends its stored sample once more and every call of Redis succeeds
C25_MirrorSteps(b, a, index, texts, now) ==
  LET data == JSONparse(texts[b][1].text)
      other == JSONparse(texts[a][1].text)
      k == Kin([data |-> data], other)
      t == CollisionTime(k.selfP, k.headingSelf, k.speedSelf,
                         k.otherP, k.headingOther, k.speedOther)
  IN IF C25_Found(b, a, index, texts) /\ ~IsStale(other, now) /\ t # 0 THEN {t} ELSE {}

\* the sample stored for the sender is the message handled, and is not stale
C25_SenderStored(h, texts, now) ==
  /\ texts[h.data.userId.s] # << >>
  /\ texts[h.data.userId.s][1].text = JSONstringify(h.data)
  /\ ~IsStale(h.data, now)

\* C25 as claimed: when a handler ends after mGet with a predicted_collision
\* threat against b at step t, and the sample stored for the sender is the
\* message handled and is not stale, then b's stored sample sent once more
\* makes the handler emit predicted_collision against the sender at step t.
C25_CollisionSymmetric ==
  [][ (inflight # << >> /\ Head(inflight).pc = "mGet" /\ inflight' = Tail(inflight)) =>
        LET h == Head(inflight)
            a == h.data.userId.s
            ack == sent'[Len(sent')]
        IN \A i \in Evaluated(h) :
             C25_SenderStored(h, userData', clock')
             => C25_StepsAgainst(ack, h.otherIds[i])
                  \subseteq C25_MirrorSteps(h.otherIds[i], a, geo', userData', clock')
    ]_vars

\* C25: when a handler ends after mGet with a predicted_collision threat
\* against b at step t, the sample stored for the sender is the message
\* handled and is not stale, and the radius query made for b's stored sample
\* sent once more returns the sender, then that message makes the handler
\* emit predicted_collision against the sender at the same step t, and at no
\* step when the first handler emitted none.
C25_SymmetricWhenFound ==
  [][ (inflight # << >> /\ Head(inflight).pc = "mGet" /\ inflight' = Tail(inflight)) =>
        LET h == Head(inflight)
            a == h.data.userId.s
            ack == sent'[Len(sent')]
        IN \A i \in Evaluated(h) :
             (/\ C25_SenderStored(h, userData', clock')
              /\ C25_Found(h.otherIds[i], a, geo', userData'))
             => C25_StepsAgainst(ack, h.otherIds[i])
                  = C25_MirrorSteps(h.otherIds[i], a, geo', userData', clock')
    ]_vars

\* A, not turning, has been told of a collision with B at step 4, B's stored
\* sample being the one from 60 m at 5 m/s, and B's own query would find A
C25_Witness ==
  /\ sent # << >>
  /\ LET ack == sent[Len(sent)]
     IN /\ ack.status = "received"
        /\ ack.msg.userId = JStr("A")
        /\ ~IsSuddenTurn(ack.msg)
        /\ C25_StepsAgainst(ack, "B") = {4}
        /\ userData["A"] # << >> /\ userData["B"] # << >>
        /\ JSONparse(userData["B"][1].text).speed = JNum(5)
        /\ C25_Found("B", "A", geo, userData)
        /\ C25_MirrorSteps("B", "A", geo, userData, clock) = {4}

----------------------------------------------------------------------------
(* The speed history *)

\* C26: the step that ends the handler of a message that passed validation,
\* be it after mGet or at the return for no neighbour, appends one sample
\* (the speed of the message, Date.now()) to the history of the sender,
\* kept to its last HISTORY_LEN samples; no other step changes a history.
C26_EveryAcceptedAppends ==
  [][ IF inflight # << >> /\ inflight' = Tail(inflight)
      THEN LET h == Head(inflight)
           IN speedHistory' = PushHistory(speedHistory, h.data.userId.s,
                                          SpeedOf(h.data.speed), clock)
      ELSE speedHistory' = speedHistory
    ]_vars

\* C27: after every step each history holds at most HISTORY_LEN samples, in
\* the order of their times of arrival; the step that ends a handler after
\* mGet leaves the sender's history as it was with the new sample at its
\* end, less its oldest sample when it was full, and no other history and no
\* other step changes a history.
C27_MostRecentKept ==
  [][ \A id \in Ids :
        LET old == speedHistory[id]
            new == speedHistory'[id]
        IN /\ Len(new) <= HISTORY_LEN
           /\ \A i, j \in 1..Len(new) : i <= j => new[i].t <= new[j].t
           /\ IF /\ inflight # << >>
                 /\ Head(inflight).pc = "mGet"
                 /\ inflight' = Tail(inflight)
                 /\ Head(inflight).data.userId.s = id
              THEN LET sample == [speed |-> SpeedOf(Head(inflight).data.speed), t |-> clock]
                   IN new = IF Len(old) = HISTORY_LEN THEN Append(Tail(old), sample)
                            ELSE Append(old, sample)
              ELSE new = old
    ]_vars

\* the seven messages are spent, one of them A's, and B's history is full,
\* with the speeds 10 and then 11 at its ends
C27_Witness ==
  /\ budget.msgs = 0
  /\ inflight = << >>
  /\ userData["A"] # << >>
  /\ speedHistory["A"] = << >>
  /\ Len(speedHistory["B"]) = HISTORY_LEN
  /\ speedHistory["B"][1].speed = 10
  /\ speedHistory["B"][HISTORY_LEN].speed = 11

\* C28: when a handler ends after mGet, a neighbour evaluated whose last two
\* history samples are less than one second apart, with a drop of speed
\* between them below SUDDEN_DECEL, is named by no rear_end threat of the
\* acknowledgment.
C28_NoRearEndWithinASecond ==
  [][ (inflight # << >> /\ Head(inflight).pc = "mGet" /\ inflight' = Tail(inflight)) =>
        LET h == Head(inflight)
            ack == sent'[Len(sent')]
        IN \A i \in Evaluated(h) :
             LET hist == speedHistory'[h.otherIds[i]]
                 n == Len(hist)
             IN (/\ n >= 2
                 /\ hist[n].t - hist[n - 1].t < 1000
                 /\ hist[n - 1].speed - hist[n].speed < SUDDEN_DECEL)
                => \A j \in 1..Len(ack.threats) :
                     ~(ack.threats[j].id = h.otherIds[i] /\ ack.threats[j].type = "rear_end")
    ]_vars

----------------------------------------------------------------------------
(* The radius of the neighbour query *)

\* the square of the distance between two members of the geo index
C29_DistSq(a, b) ==
  (geo[a][1].lat - geo[b][1].lat) * (geo[a][1].lat - geo[b][1].lat)
  + (geo[a][1].lng - geo[b][1].lng) * (geo[a][1].lng - geo[b][1].lng)

\* the vehicles other than self that the geo index holds within radius
C29_OthersWithin(self, radius) ==
  {id \in Ids \ {self} : geo[id] # << >> /\ C29_DistSq(id, self) <= radius * radius}

\* the absolute yaw rate of a message in thousandths of a degree per second:
\* gyro.z taken as radians per second below 0.5 and as degrees per second
\* from 0.5 on, 0 without gyro (pi as 355/113)
C29_YawRate(data) ==
  LET z == IF data.gyroZ.type = "number" THEN Abs(data.gyroZ.v) ELSE 0
  IN IF z < 500 THEN (z * 180 * 113) \div 355 ELSE z

\* the handler goes on to mGet with exactly the vehicles of a set, or
\* acknowledges without threats when the set is empty
C29_QueryGave(others) ==
  IF others = {}
  THEN /\ inflight' = Tail(inflight)
       /\ sent'[Len(sent')].status = "received"
       /\ sent'[Len(sent')].threats = << >>
  ELSE /\ Len(inflight') = Len(inflight)
       /\ LET g == inflight'[Len(inflight')]
          IN g.pc = "mGet" /\ {g.otherIds[i] : i \in 1..Len(g.otherIds)} = others

\* C29: when geoRadiusByMember returns for a sender that is in the geo
\* index, the neighbours the handler goes on with are the other vehicles
\* within 83 m of the sender when the yaw rate of the message is at least
\* 45 degrees per second, and those within 75 m otherwise, a message without
\* gyro included.
C29_RadiusByYawRate ==
  [][ (/\ inflight # << >>
       /\ Head(inflight).pc = "geoRadiusByMember"
       /\ geo[Head(inflight).data.userId.s] # << >>
       /\ inflight' # inflight) =>
        LET data == Head(inflight).data
        IN C29_QueryGave(C29_OthersWithin(data.userId.s,
             IF C29_YawRate(data) >= 1000 * ANGULAR_VEL_HIGH_DEG_S
             THEN NEARBY_RADIUS_METERS + BLIND_SPOT_RADIUS_BOOST_METERS
             ELSE NEARBY_RADIUS_METERS))
    ]_vars

\* A, turning at 45 degrees per second, goes on to mGet with B, 80 m away
C29_Witness ==
  /\ inflight # << >>
  /\ Head(inflight).pc = "mGet"
  /\ Head(inflight).data.userId = JStr("A")
  /\ Head(inflight).data.gyroZ = JNum(45000)
  /\ Head(inflight).otherIds = << "B" >>
  /\ geo["A"] # << >> /\ geo["B"] # << >>
  /\ C29_DistSq("A", "B") = 80 * 80

\* the vehicles of the geo index beyond NEARBY_RADIUS_METERS and within the
\* boosted radius of self
C30_Ring(self) ==
  C29_OthersWithin(self, NEARBY_RADIUS_METERS + BLIND_SPOT_RADIUS_BOOST_METERS)
    \ C29_OthersWithin(self, NEARBY_RADIUS_METERS)

\* C30: when geoRadiusByMember returns for a sender that is in the geo
\* index, a vehicle more than 75 m and at most 83 m away is among the
\* neighbours the handler goes on with if and only if the magnitude of
\* gyro.z as sent is at least 45; a magnitude below 0.5 never brings it in.
C30_BoostIffRawAtLeast45 ==
  [][ (/\ inflight # << >>
       /\ Head(inflight).pc = "geoRadiusByMember"
       /\ geo[Head(inflight).data.userId.s] # << >>
       /\ inflight' # inflight) =>
        LET data == Head(inflight).data
            raw == IF data.gyroZ.type = "number" THEN Abs(data.gyroZ.v) ELSE 0
            given == IF inflight' = Tail(inflight) THEN {}
                     ELSE LET g == inflight'[Len(inflight')]
                          IN {g.otherIds[i] : i \in 1..Len(g.otherIds)}
        IN \A id \in C30_Ring(data.userId.s) :
             id \in given <=> raw >= 1000 * ANGULAR_VEL_HIGH_DEG_S
    ]_vars

\* A, with gyro.z = 0.499, has been acknowledged without neighbours while B
\* is 80 m away
C30_Witness ==
  /\ sent # << >>
  /\ sent[Len(sent)].status = "received"
  /\ sent[Len(sent)].msg.userId = JStr("A")
  /\ sent[Len(sent)].msg.gyroZ = JNum(499)
  /\ sent[Len(sent)].threats = << >>
  /\ inflight = << >>
  /\ geo["A"] # << >> /\ geo["B"] # << >>
  /\ C29_DistSq("A", "B") = 80 * 80

----------------------------------------------------------------------------
(* Headings and speeds *)

\* the headings normalizeHeadingDeg produces from the messages being handled
\* and from the stored samples, and those of the threats just sent
C31_Produced ==
  {HeadingOf(inflight[i].data.heading) : i \in 1..Len(inflight)}
  \cup {HeadingOf(JSONparse(userData[id][1].text).heading) :
          id \in {x \in Ids : userData[x] # << >> /\ ~ParseThrows(userData[x][1].text)}}
  \cup UNION {{sent[i].threats[j].sourceVehicle.heading.v : j \in 1..Len(sent[i].threats)} :
                i \in 1..Len(sent)}

\* C31: every heading that normalizeHeadingDeg produces is at least 0 and
\* below 360, and headingDiff of any two of them is between 0 and 180 and
\* the same in either order.
C31_HeadingsNormalized ==
  /\ \A h \in C31_Produced : 0 <= h /\ h < 360
  /\ \A h1, h2 \in C31_Produced :
       /\ 0 <= headingDiff(h1, h2) /\ headingDiff(h1, h2) <= 180
       /\ headingDiff(h1, h2) = headingDiff(h2, h1)

\* a payload field holds a finite number that is not negative
C32_FiniteSpeed(j) == IsFinite(j) /\ j.v >= 0

\* C32: every sample of a speed history holds a finite speed that is not
\* negative, and so does the sourceVehicle of every threat of an
\* acknowledgment or push that carries a speed.
C32_SpeedsFinite ==
  /\ \A id \in Ids : \A i \in 1..Len(speedHistory[id]) :
       speedHistory[id][i].speed >= 0 /\ speedHistory[id][i].speed # SpeedInfinity
  /\ \A i \in 1..Len(sent) : \A j \in 1..Len(sent[i].threats) :
       LET speed == sent[i].threats[j].sourceVehicle.speed
       IN speed.type # "undefined" => C32_FiniteSpeed(speed)

----------------------------------------------------------------------------
(* The records of a threat *)

\* C33: the sourceVehicle of every threat of an acknowledgment or push, of
\* whatever type, has a userId, a latitude, a longitude, a speed and a
\* heading.
C33_SourceVehicleComplete ==
  \A i \in 1..Len(sent) : \A j \in 1..Len(sent[i].threats) :
    LET v == sent[i].threats[j].sourceVehicle
    IN /\ v.userId \in Ids
       /\ \A f \in {"latitude", "longitude", "speed", "heading"} : v[f].type # "undefined"

----------------------------------------------------------------------------
(* The majority heading of two vehicles *)

\* the positions of otherIds for which a payload is stored
C34_WithPayload(h) == {i \in 1..Len(h.otherIds) : userData[h.otherIds[i]] # << >>}

\* an acknowledgment holds a wrong_direction threat naming id
C34_WrongDirectionAgainst(ack, id) ==
  \E j \in 1..Len(ack.threats) :
    ack.threats[j].type = "wrong_direction" /\ ack.threats[j].id = id

\* C34 as claimed: when a handler ends after mGet with exactly one neighbour
\* for which a payload is stored, its acknowledgment holds no wrong_direction
\* threat naming that neighbour.
C34_NeverForSoleNeighbour ==
  [][ (inflight # << >> /\ Head(inflight).pc = "mGet" /\ inflight' = Tail(inflight)) =>
        LET h == Head(inflight)
            ack == sent'[Len(sent')]
        IN Cardinality(C34_WithPayload(h)) = 1 =>
             \A i \in C34_WithPayload(h) : ~C34_WrongDirectionAgainst(ack, h.otherIds[i])
    ]_vars

\* C34: when a handler ends after mGet with exactly one neighbour for which
\* a payload is stored, its acknowledgment holds a wrong_direction threat
\* naming that neighbour only if the headings of the sender and of the
\* neighbour are exactly opposite, 180 degrees apart.
C34_OnlyForOppositeHeadings ==
  [][ (inflight # << >> /\ Head(inflight).pc = "mGet" /\ inflight' = Tail(inflight)) =>
        LET h == Head(inflight)
            ack == sent'[Len(sent')]
        IN Cardinality(C34_WithPayload(h)) = 1 =>
             \A i \in C34_WithPayload(h) :
               C34_WrongDirectionAgainst(ack, h.otherIds[i])
               => headingDiff(HeadingOf(h.data.heading),
                              HeadingOf(JSONparse(userData[h.otherIds[i]][1].text).heading)) = 180
    ]_vars

\* A, heading 202 like its only neighbour B, has been acknowledged after
\* mGet without threats
C34_Witness ==
  /\ sent # << >>
  /\ LET ack == sent[Len(sent)]
     IN /\ ack.status = "received"
        /\ ack.msg.userId = JStr("A")
        /\ ack.msg.heading = JNum(202)
        /\ ack.threats = << >>
        /\ speedHistory["A"] # << >>
        /\ speedHistory["A"][Len(speedHistory["A"])].t = clock
        /\ userData["B"] # << >>
        /\ JSONparse(userData["B"][1].text).heading = JNum(202)

----------------------------------------------------------------------------
(* Neighbours without a usable sample *)

\* the neighbours of a handler whose telemetry entry is missing when mGet
\* returns, never written or expired
C35_Missing(h) == {h.otherIds[i] : i \in {n \in 1..Len(h.otherIds) : userData[h.otherIds[n]] = << >>}}

\* C35: when a handler ends after mGet, a neighbour that the radius query
\* returned and whose telemetry entry is missing or has expired is named by
\* no threat of the acknowledgment and is the addressee of no push, bound to
\* an open channel or not.
C35_MissingNeverCounterpart ==
  [][ (inflight # << >> /\ Head(inflight).pc = "mGet" /\ inflight' = Tail(inflight)) =>
        LET h == Head(inflight)
        IN \A id \in C35_Missing(h) :
             \A n \in 1..Len(sent') :
               /\ sent'[n].peer # id
               /\ \A j \in 1..Len(sent'[n].threats) :
                    sent'[n].status = "received" => sent'[n].threats[j].id # id
    ]_vars

\* B has been acknowledged after mGet without threats, at a time when A,
\* within its radius and bound to an open channel, has no telemetry entry
C35_Witness ==
  /\ sent # << >>
  /\ sent[Len(sent)].status = "received"
  /\ sent[Len(sent)].msg.userId = JStr("B")
  /\ sent[Len(sent)].threats = << >>
  /\ speedHistory["B"] # << >>
  /\ speedHistory["B"][Len(speedHistory["B"])].t = clock
  /\ geo["A"] # << >>
  /\ userData["A"] = << >>
  /\ MapGet(userSockets, "A") # NoSocket
  /\ readyState[MapGet(userSockets, "A")] = "OPEN"

\* the timestamp of a stored sample is missing, null or not a date
C36_Undated(text) ==
  LET ts == JSONparse(text).timestamp
  IN ts.type \in {"undefined", "null", "string"}

\* C36: when a handler ends after mGet, a neighbour whose stored sample has
\* no timestamp, or one that is not a date, is named by no threat of the
\* acknowledgment and is the addressee of no push, however recently the
\* sample was stored.
C36_UndatedNeverCounterpart ==
  [][ (inflight # << >> /\ Head(inflight).pc = "mGet" /\ inflight' = Tail(inflight)) =>
        LET h == Head(inflight)
        IN \A i \in 1..Len(h.otherIds) :
             (/\ userData[h.otherIds[i]] # << >>
              /\ ~ParseThrows(userData[h.otherIds[i]][1].text)
              /\ C36_Undated(userData[h.otherIds[i]][1].text))
             => \A n \in 1..Len(sent') :
                  /\ sent'[n].peer # h.otherIds[i]
                  /\ \A j \in 1..Len(sent'[n].threats) :
                       sent'[n].status = "received" => sent'[n].threats[j].id # h.otherIds[i]
    ]_vars

\* A has been acknowledged after mGet without threats while B, 10 m ahead
\* and bound to an open channel, has a sample stored at this instant whose
\* timestamp is not a date
C36_Witness ==
  /\ sent # << >>
  /\ sent[Len(sent)].status = "received"
  /\ sent[Len(sent)].msg.userId = JStr("A")
  /\ sent[Len(sent)].threats = << >>
  /\ speedHistory["A"] # << >>
  /\ userData["B"] # << >>
  /\ JSONparse(userData["B"][1].text).timestamp = JStr("soon")
  /\ MapGet(userSockets, "B") # NoSocket
  /\ readyState[MapGet(userSockets, "B")] = "OPEN"

----------------------------------------------------------------------------
(* Two messages of one vehicle *)

\* C37: once m1 and then m2 of A have been received and every handler has
\* run to its end, in whatever order their Redis calls were answered, the
\* geo set holds m2's position, the store holds m2's text, and the last
\* sample of A's speed history is m2's speed.
C37_SecondMessageStays ==
  (budget.msgs = 0 /\ inflight = << >>) =>
    \E m2 \in SecondMessages(clock) :
      /\ geo["A"] = << [lat |-> m2.latitude.v, lng |-> m2.longitude.v] >>
      /\ userData["A"] # << >>
      /\ userData["A"][1].text = JSONstringify(m2)
      /\ speedHistory["A"] # << >>
      /\ speedHistory["A"][Len(speedHistory["A"])].speed = SpeedOf(m2.speed)

----------------------------------------------------------------------------
(* Frame conditions *)

\* C38: the step that closes channel c leaves every binding to another
\* channel as it was, also that of an id once bound to c and since bound
\* to the other channel.
C38_CloseKeepsOtherBindings ==
  [][ \A c \in Channels :
        (readyState[c] = "OPEN" /\ readyState'[c] = "CLOSED") =>
          \A id \in Ids :
            MapGet(userSockets, id) \notin {c, NoSocket} =>
              MapGet(userSockets', id) = MapGet(userSockets, id)
    ]_vars

\* c1 is closed and A is bound to c2, while the handler of A's first
\* message, which was received on c1 and bound A to it, is still suspended
C38_Witness ==
  /\ readyState["c1"] = "CLOSED"
  /\ readyState["c2"] = "OPEN"
  /\ MapGet(userSockets, "A") = "c2"
  /\ budget.msgs = 0
  /\ \E i \in 1..Len(inflight) :
       inflight[i].ch = "c1" /\ inflight[i].data = FirstMessage(clock)

\* C39: the step that accepts a message of X changes no binding but X's,
\* and every step of its handler leaves the geo entry, the stored sample,
\* the speed history and the binding of every other id as they were, also
\* of the ids named by the threats of the step.
C39_HandlerWritesOwnRecords ==
  [][ /\ Len(inflight') = Len(inflight) + 1 =>
           \A id \in Ids \ {inflight'[Len(inflight')].data.userId.s} :
             MapGet(userSockets', id) = MapGet(userSockets, id)
      /\ (inflight # << >> /\ inflight' # inflight /\ Len(inflight') <= Len(inflight)) =>
           \A id \in Ids \ {Head(inflight).data.userId.s} :
             /\ geo'[id] = geo[id]
             /\ userData'[id] = userData[id]
             /\ speedHistory'[id] = speedHistory[id]
             /\ MapGet(userSockets', id) = MapGet(userSockets, id)
    ]_vars

\* A's handler has ended with a threat that names B and a push to B, and
\* B's position, sample, history and binding are in place
C39_Witness ==
  /\ \E ack \in Acks :
       /\ ack.msg.userId = JStr("A")
       /\ \E j \in 1..Len(ack.threats) : ack.threats[j].id = "B"
  /\ \E p \in Pushes : p.peer = "B" /\ p.open
  /\ geo["B"] # << >>
  /\ userData["B"] # << >>
  /\ speedHistory["B"] # << >>
  /\ MapGet(userSockets, "B") # NoSocket

====
